---- MODULE Spec2Model ----
(***************************************************************************)
(* A model of astropysics/models/modcore.py: the auto-parameter binder     *)
(* (AutoParamsMeta), FunctionModel parameter access and fitData, the       *)
(* 1-D call redirection (setCall), CompositeModel1D and the model          *)
(* registry.                                                               *)
(*                                                                         *)
(* Names (parameter names, registry names, keyword names) are sequences of *)
(* one-character strings, so that str(i) suffixes, startswith, lower() and *)
(* replace() are computed the way the Python code computes them.           *)
(***************************************************************************)
EXTENDS Integers, Sequences, FiniteSets, TLC

\* classes:  the model classes defined, by name
\* heap:     the model instances, a sequence indexed by object id
\* registry: __model_registry, a dictionary from names to classes
\* fit:      the locals of the fitData call that is waiting for the optimizer
\* last:     the last operation made, with its inputs and its outcome
VARIABLES classes, heap, registry, fit, last

vars == <<classes, heap, registry, fit, last>>

(***************************************************************************)
(* Bounds of the model.                                                    *)
(***************************************************************************)
MaxVal == 2          \* parameter values and optimizer trial values are 1..MaxVal
MaxNParams == 2      \* largest parameter count given to a variable-arity model
MaxDepth == 3        \* the interpreter's recursion limit, in nested calls of a model
MaxFilters == 2      \* longest filter list of a composite
MaxNames == 2        \* longest include or exclude sequence given to list_models

Vals == 1..MaxVal

(***************************************************************************)
(* Generic helpers.                                                        *)
(***************************************************************************)
Range(s) == {s[i] : i \in 1..Len(s)}

InSeq(e, s) == \E i \in 1..Len(s) : s[i] = e

Min(a, b) == IF a < b THEN a ELSE b

\* list.index(e): position of the first occurrence (0 when absent)
IndexOf(s, e) ==
    IF InSeq(e, s) THEN CHOOSE i \in 1..Len(s) : s[i] = e /\ \A j \in 1..(i-1) : s[j] # e
    ELSE 0

\* del s[i]
DelAt(s, i) == [j \in 1..(Len(s)-1) |-> IF j < i THEN s[j] ELSE s[j+1]]

\* list.remove(e) for an element that is present
Remove(s, e) == DelAt(s, IndexOf(s, e))

\* str.startswith
StartsWith(s, p) == Len(p) <= Len(s) /\ SubSeq(s, 1, Len(p)) = p

\* dict[k] = v
SetKey(f, k, v) == (k :> v) @@ f

\* dict restricted to the keys in K
Restrict(f, K) == [k \in K |-> f[k]]

EmptyDict == <<>>

Digit(d) ==
    CASE d = 0 -> "0" [] d = 1 -> "1" [] d = 2 -> "2" [] d = 3 -> "3" [] d = 4 -> "4"
      [] d = 5 -> "5" [] d = 6 -> "6" [] d = 7 -> "7" [] d = 8 -> "8" [] d = 9 -> "9"

\* str(i) for a non-negative int, as a sequence of characters
RECURSIVE Str(_)
Str(i) == IF i < 10 THEN <<Digit(i)>> ELSE Str(i \div 10) \o <<Digit(i % 10)>>

RECURSIVE Ones(_)
Ones(n) == IF n <= 0 THEN <<>> ELSE <<1>> \o Ones(n - 1)

RECURSIVE SetToSeq(_)
SetToSeq(S) == IF S = {} THEN <<>> ELSE LET e == CHOOSE e \in S : TRUE IN <<e>> \o SetToSeq(S \ {e})

\* all orders in which the elements of a finite set can be enumerated
Perms(S) == {s \in [1..Cardinality(S) -> S] : \A i, j \in 1..Cardinality(S) : i # j => s[i] # s[j]}

(***************************************************************************)
(* Names used by the code.                                                 *)
(***************************************************************************)
SELFARG == <<"s","e","l","f">>
CLSARG == <<"c","l","s">>
XARG == <<"x">>
NPARAMS == <<"n","p","a","r","a","m","s">>
PA == <<"a">>
PB == <<"b">>
PC == <<"c">>
PP == <<"p">>

NoVal == 0 - 1       \* stands for "no value" (AttributeError on read, None)
NoClass == [kind |-> "none"]
NoObj == [cls |-> "none"]
Idle == [pc |-> "idle"]

(***************************************************************************)
(* AutoParamsMeta.__init__: class definition from the signature of f.      *)
(* sig mirrors inspect.getargspec(f): args (with self and the data         *)
(* argument), defaults (of the last len(defaults) args; <<>> for None),    *)
(* varargs and varkw flags.  clsattrs holds the class attributes the       *)
(* binder reads later: paramsnames and the "_<p>_default" values.          *)
(***************************************************************************)
\* a binder that pads the missing defaults after the declared ones
DefaultsOfPadRight(args, sigdefaults) ==
    IF Len(args) # Len(sigdefaults)
    THEN sigdefaults \o Ones(Len(args) - Len(sigdefaults))
    ELSE sigdefaults

\* lines 140-144: the defaults list, padded in front with 1 for every argument
\* that declares none
DefaultsOf(args, sigdefaults) ==
    IF Len(args) # Len(sigdefaults)
    THEN Ones(Len(args) - Len(sigdefaults)) \o sigdefaults
    ELSE sigdefaults

StripSelf(args) ==
    IF InSeq(SELFARG, args) THEN Remove(args, SELFARG)
    ELSE IF InSeq(CLSARG, args) THEN Remove(args, CLSARG)
    ELSE args

MetaInit(sig, clsattrs) ==
    IF sig.varkw THEN [exc |-> "SyntaxError", cls |-> NoClass]
    ELSE IF StripSelf(sig.args) = <<>> THEN [exc |-> "IndexError", cls |-> NoClass]
    ELSE LET args == Tail(StripSelf(sig.args))
             defaults == DefaultsOf(args, sig.defaults)
             n == Min(Len(args), Len(defaults))
         IN [exc |-> "none",
             cls |-> [kind |-> "auto",
                      descr |-> [p \in {args[i] : i \in 1..n} |-> defaults[IndexOf(args, p)]],
                      openarity |-> sig.varargs,
                      pars |-> IF sig.varargs THEN <<>> ELSE args,
                      statargs |-> IF sig.varargs THEN args ELSE <<>>,
                      sig |-> sig,
                      paramsname |-> clsattrs.paramsname,
                      vardefaults |-> clsattrs.vardefaults,
                      customfit |-> clsattrs.customfit,
                      defaultparval |-> 1]]

(***************************************************************************)
(* Instances.  attrs holds the parameter attributes that have been set on  *)
(* the instance; every other instance attribute the code uses is a field.  *)
(* calltype, xtrans, ytrans, callkw and xkw are what the _filterfunc        *)
(* installed by setCall closes over, filterfunctype is _filterfunctype      *)
(* (<<>> while the attribute is absent), rmodel is _rmodel of a 2-D wrapper *)
(* (0 for the other classes); lastfit is <<>> while the attribute is        *)
(* absent and fitteddata is <<>> for None.                                  *)
(***************************************************************************)
NewObj(cid, pars, attrs) ==
    [cls |-> cid, pars |-> pars, attrs |-> attrs,
     models |-> <<>>, ops |-> <<>>, argmap |-> EmptyDict,
     filters |-> <<>>, calltype |-> "none", xtrans |-> "None", ytrans |-> "None",
     callkw |-> EmptyDict, xkw |-> "none", filterfunctype |-> <<>>, rmodel |-> 0,
     lastfit |-> <<>>, fitteddata |-> <<>>]

\* the names generated for a variable-arity instance, in order
RECURSIVE GenNames(_, _, _)
GenNames(paramsnames, i, nparams) ==
    IF i >= nparams THEN <<>>
    ELSE [j \in 1..Len(paramsnames) |-> paramsnames[j] \o Str(i)]
         \o GenNames(paramsnames, i + 1, nparams)

\* "set initial values" of AutoParamsMeta.__call__
SetInitial(obj, args, kwargs) ==
    IF Len(args) + Cardinality(DOMAIN kwargs) > Len(obj.pars)
    THEN [exc |-> "TypeError", obj |-> obj]
    ELSE IF \E k \in DOMAIN kwargs : ~InSeq(k, obj.pars)
    THEN [exc |-> "ValueError", obj |-> obj]
    ELSE LET idx == {i \in 1..Len(obj.pars) :
                        ~(obj.pars[i] \in DOMAIN kwargs /\ IndexOf(obj.pars, obj.pars[i]) = i)}
             rest == [j \in 1..Cardinality(idx) |->
                        obj.pars[CHOOSE i \in idx : Cardinality({m \in idx : m < i}) = j - 1]]
             n == Min(Len(rest), Len(args))
             posn == [p \in {rest[i] : i \in 1..n} |->
                        args[CHOOSE i \in 1..n : rest[i] = p /\ \A m \in (i+1)..n : rest[m] # p]]
         IN [exc |-> "none",
             obj |-> [obj EXCEPT !.attrs = posn @@ kwargs @@ obj.attrs]]

\* the name templates of a variable-arity class: the paramsname class attribute
\* (a string or a tuple of strings), ('p',) when the class declares none
ParamsNamesOf(c) ==
    IF c.paramsname.kind = "absent" THEN <<PP>>
    ELSE IF c.paramsname.kind = "str" THEN <<c.paramsname.v>>
    ELSE c.paramsname.v

\* AutoParamsMeta.__call__: construction of an instance of class c (id cid)
MetaCall(cid, c, args, kwargs) ==
    IF c.openarity
    THEN IF Len(args) > 1 THEN [exc |-> "ValueError", obj |-> NoObj]
         ELSE IF NPARAMS \notin DOMAIN kwargs /\ args = <<>>
         THEN [exc |-> "IndexError", obj |-> NoObj]
         ELSE LET nparams == IF NPARAMS \in DOMAIN kwargs THEN kwargs[NPARAMS] ELSE args[1]
                  kw1 == Restrict(kwargs, DOMAIN kwargs \ {NPARAMS})
                  objkeys == {k \in DOMAIN kw1 :
                                 /\ ~InSeq(k, c.statargs)
                                 /\ ~\E i \in 1..Len(ParamsNamesOf(c)) : StartsWith(k, ParamsNamesOf(c)[i])}
                  kw2 == Restrict(kw1, DOMAIN kw1 \ objkeys)
                  gen == GenNames(ParamsNamesOf(c), 0, nparams)
                  attrs0 == [p \in Range(gen) |->
                                IF p \in DOMAIN c.vardefaults THEN c.vardefaults[p] ELSE 1]
              IN IF objkeys # {} THEN [exc |-> "TypeError", obj |-> NoObj]
                 ELSE SetInitial(NewObj(cid, c.statargs \o gen, attrs0), args, kw2)
    ELSE LET objkeys == {k \in DOMAIN kwargs : ~InSeq(k, c.pars)}
             kw2 == Restrict(kwargs, DOMAIN kwargs \ objkeys)
         IN IF objkeys # {} THEN [exc |-> "TypeError", obj |-> NoObj]
            ELSE SetInitial(NewObj(cid, c.pars, EmptyDict), args, kw2)

(***************************************************************************)
(* Attribute access on parameters.  ct is the class table, h the heap, o   *)
(* an object id.  A read returns the value (NoVal with exc set when the    *)
(* lookup raises) and the heap after the read: _AutoParameter.__get__      *)
(* stores the default on the instance when it is first read.               *)
(***************************************************************************)
RECURSIVE GetAttr(_, _, _, _)
GetAttr(ct, h, o, name) ==
    LET obj == h[o]
        c == ct[obj.cls]
    IN IF c.kind = "composite"
       THEN IF ~InSeq(name, obj.pars) THEN [v |-> NoVal, exc |-> "AttributeError", h |-> h]
            ELSE IF name \notin DOMAIN obj.argmap THEN [v |-> NoVal, exc |-> "KeyError", h |-> h]
            ELSE GetAttr(ct, h, obj.models[obj.argmap[name][1] + 1], obj.argmap[name][2])
       ELSE IF name \in DOMAIN obj.attrs THEN [v |-> obj.attrs[name], exc |-> "none", h |-> h]
       \* FunctionModel2DScalarDeformedRadial.__getattr__ (lines 2087-2091),
       \* called when the instance holds no such attribute
       ELSE IF c.kind = "deformed" THEN GetAttr(ct, h, obj.rmodel, name)
       ELSE IF name \in DOMAIN c.descr
            THEN [v |-> c.descr[name], exc |-> "none",
                  h |-> [h EXCEPT ![o].attrs = SetKey(obj.attrs, name, c.descr[name])]]
       ELSE [v |-> NoVal, exc |-> "AttributeError", h |-> h]

\* setattr(o, name, val) for a parameter name; returns the new heap
RECURSIVE SetAttr(_, _, _, _, _)
\* FunctionModel2DScalarDeformedRadial.__setattr__ (lines 2093-2097): r is the
\* outcome of the read that hasattr(self._rmodel, name) makes
SetAttrDeformed(ct, h, o, name, val, r) ==
    IF r.exc = "none" THEN SetAttr(ct, r.h, h[o].rmodel, name, val)
    ELSE [h EXCEPT ![o].attrs = SetKey(h[o].attrs, name, val)]

SetAttr(ct, h, o, name, val) ==
    LET obj == h[o]
        c == ct[obj.cls]
    IN IF c.kind = "composite" /\ InSeq(name, obj.pars)
       THEN IF name \notin DOMAIN obj.argmap THEN h
            ELSE SetAttr(ct, h, obj.models[obj.argmap[name][1] + 1], obj.argmap[name][2], val)
       ELSE IF c.kind = "deformed"
       THEN SetAttrDeformed(ct, h, o, name, val, GetAttr(ct, h, obj.rmodel, name))
       ELSE [h EXCEPT ![o].attrs = SetKey(obj.attrs, name, val)]

\* for a, v in zip(names, vals): setattr(o, a, v)
RECURSIVE SetAll(_, _, _, _, _)
SetAll(ct, h, o, names, vals) ==
    IF names = <<>> \/ vals = <<>> THEN h
    ELSE SetAll(ct, SetAttr(ct, h, o, Head(names), Head(vals)), o, Tail(names), Tail(vals))

\* [getattr(o, a) for a in names], stopping at the first read that raises
RECURSIVE GetAll(_, _, _, _)
GetAllCons(r, rest) == [vals |-> <<r.v>> \o rest.vals, exc |-> rest.exc, h |-> rest.h]

GetAllNext(ct, o, r, names) ==
    IF r.exc # "none" THEN [vals |-> <<>>, exc |-> r.exc, h |-> r.h]
    ELSE GetAllCons(r, GetAll(ct, r.h, o, names))

GetAll(ct, h, o, names) ==
    IF names = <<>> THEN [vals |-> <<>>, exc |-> "none", h |-> h]
    ELSE GetAllNext(ct, o, GetAttr(ct, h, o, Head(names)), Tail(names))

\* FunctionModel._autoInitPars
AutoInitPars(ct, h, o) ==
    SetAll(ct, h, o, h[o].pars, [i \in 1..Len(h[o].pars) |-> ct[h[o].cls].defaultparval])

\* FunctionModel.params
Params(h, o) == h[o].pars

\* a parvals getter that does not initialise the parameters that are unset
GetParvalsNoInit(ct, o, r) == r

\* FunctionModel._getParvals: r is the outcome of the tuple of reads; on
\* AttributeError every parameter is initialised and parvals is read again
RECURSIVE GetParvals(_, _, _)
GetParvalsOr(ct, o, r) ==
    IF r.exc = "AttributeError" THEN GetParvals(ct, AutoInitPars(ct, r.h, o), o)
    ELSE r

GetParvals(ct, h, o) == GetParvalsOr(ct, o, GetAll(ct, h, o, h[o].pars))

\* FunctionModel._setParvals
SetParvals(ct, h, o, newpars) ==
    IF Len(newpars) > Len(h[o].pars) THEN [exc |-> "ValueError", h |-> h]
    ELSE [exc |-> "none", h |-> SetAll(ct, h, o, h[o].pars, newpars)]

\* FunctionModel._getPardict: the dictionary, as a function on the names
PardictOf(pars, r) ==
    [d |-> IF r.exc # "none" THEN EmptyDict
           ELSE [a \in Range(pars) |->
                   r.vals[CHOOSE i \in 1..Len(pars) :
                             pars[i] = a /\ \A j \in (i+1)..Len(pars) : pars[j] # a]],
     exc |-> r.exc, h |-> r.h]

GetPardict(ct, h, o) == PardictOf(h[o].pars, GetParvals(ct, h, o))

\* FunctionModel._setPardict; order is the order in which the dict is iterated
SetPardict(ct, h, o, newpardict, order) ==
    IF \E k \in DOMAIN newpardict : ~InSeq(k, h[o].pars) THEN [exc |-> "KeyError", h |-> h]
    ELSE [exc |-> "none",
          h |-> SetAll(ct, h, o, order, [i \in 1..Len(order) |-> newpardict[order[i]]])]

\* the current values without the side effects of reading (used by properties)
Parvals(ct, h, o) == GetParvals(ct, h, o).vals

(***************************************************************************)
(* CompositeModel1D.__init__.  models is a sequence of items, each an      *)
(* instance already on the heap ([kind |-> "inst", id |-> o]) or a model   *)
(* class ([kind |-> "class", cls |-> cid]) of which a new instance is made. *)
(* operation is one operator character ([kind |-> "char", op |-> "+"]) or a *)
(* sequence of operators ([kind |-> "seq", ops |-> <<...>>]).  parnames is  *)
(* the alias dictionary and porder the order in which it is iterated.      *)
(***************************************************************************)
\* m = m() for a model class: the metaclass call for auto classes
InstanceOf(ct, cid) ==
    IF ct[cid].kind = "auto" THEN MetaCall(cid, ct[cid], <<>>, EmptyDict)
    ELSE [exc |-> "none", obj |-> NewObj(cid, ct[cid].pars, EmptyDict)]

\* mods.append(m) for a new instance r.obj, which is put on the heap
AppendInstance(h, r) ==
    IF r.exc # "none" THEN [exc |-> r.exc, h |-> h, id |-> 0]
    ELSE [exc |-> "none", h |-> Append(h, r.obj), id |-> Len(h) + 1]

\* lines 1305-1312: one item of models
CollectOne(ct, h, m) ==
    IF m.kind = "inst" THEN [exc |-> "none", h |-> h, id |-> m.id]
    ELSE IF m.kind = "class" THEN AppendInstance(h, InstanceOf(ct, m.cls))
    ELSE [exc |-> "ValueError", h |-> h, id |-> 0]

CollectJoin(one, rest) == [exc |-> rest.exc, h |-> rest.h, ids |-> <<one.id>> \o rest.ids]

\* lines 1302-1315: collect the sub-models; returns the heap and their ids
RECURSIVE CollectModels(_, _, _)
CollectNext(ct, h, one, models) ==
    IF one.exc # "none" THEN [exc |-> one.exc, h |-> h, ids |-> <<>>]
    ELSE CollectJoin(one, CollectModels(ct, one.h, models))

CollectModels(ct, h, models) ==
    IF models = <<>> THEN [exc |-> "none", h |-> h, ids |-> <<>>]
    ELSE CollectNext(ct, h, CollectOne(ct, h, Head(models)), Tail(models))

\* lines 1317-1326: the operator tuple (exc set when the count is impossible)
\* operation.split('m') for an expression string given as its characters
RECURSIVE SplitM(_, _)
SplitM(s, cur) ==
    IF s = <<>> THEN <<cur>>
    ELSE IF Head(s) = "m" THEN <<cur>> \o SplitM(Tail(s), <<>>)
    ELSE SplitM(Tail(s), Append(cur, Head(s)))

\* the operator a piece of the expression string stands for ("?" for a piece
\* that is not one operator character)
TokenOp(t) == IF Len(t) = 1 THEN t[1] ELSE "?"

\* line 1321: operation.split('m')[1:-1]
ExprOps(expr) ==
    [i \in 1..(Len(SplitM(expr, <<>>)) - 2) |-> TokenOp(SplitM(expr, <<>>)[i + 1])]

\* lines 1317-1326: the operator tuple (exc set when the count is impossible)
OpsOf(operation, nmods) ==
    IF operation.kind = "char"
    THEN [exc |-> "none", ops |-> [i \in 1..(nmods - 1) |-> operation.op]]
    \* a string of more than one character ([kind |-> "expr", expr |-> <<...>>])
    ELSE IF operation.kind = "expr" THEN [exc |-> "none", ops |-> ExprOps(operation.expr)]
    ELSE IF Len(operation.ops) # nmods - 1 THEN [exc |-> "ValueError", ops |-> <<>>]
    ELSE [exc |-> "none", ops |-> operation.ops]

\* lines 1332-1339: suffixed names and the map name -> (model index, parameter)
RECURSIVE SuffixedArgs(_, _, _)
SuffixedArgs(h, ids, i) ==
    IF i >= Len(ids) THEN <<>>
    ELSE [j \in 1..Len(h[ids[i + 1]].pars) |->
             [name |-> h[ids[i + 1]].pars[j] \o Str(i), route |-> <<i, h[ids[i + 1]].pars[j]>>]]
         \o SuffixedArgs(h, ids, i + 1)

\* lines 1341-1351: apply the aliases in iteration order
RECURSIVE ApplyParnames(_, _, _, _)
ApplyParnames(args, argmap, parnames, porder) ==
    IF porder = <<>> THEN [exc |-> "none", args |-> args, argmap |-> argmap]
    ELSE LET k == Head(porder)
             v == parnames[k]
         IN IF ~InSeq(k, args) THEN [exc |-> "KeyError", args |-> args, argmap |-> argmap]
            ELSE IF InSeq(v, args) THEN [exc |-> "ValueError", args |-> args, argmap |-> argmap]
            ELSE ApplyParnames([args EXCEPT ![IndexOf(args, k)] = v],
                               Restrict(SetKey(argmap, v, argmap[k]), (DOMAIN argmap \cup {v}) \ {k}),
                               parnames, Tail(porder))

\* lines 1356-1367: drop the suffix of the names that no other name starts with
RECURSIVE AutoShorten(_, _, _, _, _)
AutoShorten(cargs, args, argmap, aliases, i) ==
    IF i > Len(cargs) THEN [args |-> args, argmap |-> argmap]
    ELSE LET a == cargs[i]
         IN IF a \in aliases THEN AutoShorten(cargs, args, argmap, aliases, i + 1)
            ELSE LET argname == argmap[a][2]
                 IN IF \E j \in 1..Len(cargs) : StartsWith(cargs[j], argname) /\ i # j
                    THEN AutoShorten(cargs, args, argmap, aliases, i + 1)
                    ELSE AutoShorten(cargs, [args EXCEPT ![i] = argname],
                                     Restrict(SetKey(argmap, argname, argmap[a]),
                                              (DOMAIN argmap \cup {argname}) \ {a}),
                                     aliases, i + 1)

\* an argmap that sends every name to the first sub-model
SuffixedMapFirst(sa) ==
    [n \in {sa[i].name : i \in 1..Len(sa)} |->
        <<0, sa[CHOOSE i \in 1..Len(sa) : sa[i].name = n].route[2]>>]

\* lines 1332-1339: args and argmap before aliasing
SuffixedNames(sa) == [i \in 1..Len(sa) |-> sa[i].name]

SuffixedMap(sa) ==
    [n \in {sa[i].name : i \in 1..Len(sa)} |->
        sa[CHOOSE i \in 1..Len(sa) : sa[i].name = n /\ \A j \in (i+1)..Len(sa) : sa[j].name # n].route]

\* lines 1355-1375: shortening, then the object with _models, _ops, _pars, _argmap
CompositeObject(cid, ids, ops, al, aliases, autoshorten) ==
    LET sh == IF autoshorten THEN AutoShorten(al.args, al.args, al.argmap, aliases, 1)
              ELSE [args |-> al.args, argmap |-> al.argmap]
    IN [NewObj(cid, sh.args, EmptyDict) EXCEPT !.models = ids, !.ops = ops, !.argmap = sh.argmap]

\* a construction that goes on with the names it has when an alias is rejected
CompositeParamsUnchecked(h, cid, ids, ops, parnames, porder, autoshorten) ==
    LET al == ApplyParnames(SuffixedNames(SuffixedArgs(h, ids, 0)),
                            SuffixedMap(SuffixedArgs(h, ids, 0)), parnames, porder)
    IN [exc |-> "none",
        h |-> Append(h, CompositeObject(cid, ids, ops, al,
                                        {parnames[k] : k \in DOMAIN parnames}, autoshorten))]

\* lines 1332-1375 for the collected sub-models ids and the operators ops
CompositeParams(h, cid, ids, ops, parnames, porder, autoshorten) ==
    LET al == ApplyParnames(SuffixedNames(SuffixedArgs(h, ids, 0)),
                            SuffixedMap(SuffixedArgs(h, ids, 0)), parnames, porder)
    IN IF al.exc # "none" THEN [exc |-> al.exc, h |-> h]
       ELSE [exc |-> "none",
             h |-> Append(h, CompositeObject(cid, ids, ops, al,
                                             {parnames[k] : k \in DOMAIN parnames}, autoshorten))]

\* a failed construction leaves the heap as it was
OrHeap(h, r) == IF r.exc # "none" THEN [exc |-> r.exc, h |-> h] ELSE r

\* lines 1317-1375 for the collected sub-models col
CompositeOps(h, cid, col, o, parnames, porder, autoshorten) ==
    IF o.exc # "none" THEN [exc |-> o.exc, h |-> h]
    ELSE OrHeap(h, CompositeParams(col.h, cid, col.ids, o.ops, parnames, porder, autoshorten))

CompositeModels(h, cid, col, operation, parnames, porder, autoshorten) ==
    IF col.exc # "none" THEN [exc |-> col.exc, h |-> h]
    ELSE CompositeOps(h, cid, col, OpsOf(operation, Len(col.ids)), parnames, porder, autoshorten)

CompositeInit(ct, h, cid, models, operation, parnames, porder, autoshorten) ==
    CompositeModels(h, cid, CollectModels(ct, h, models), operation, parnames, porder, autoshorten)

(***************************************************************************)
(* SpecBind: one class is defined from a signature of f (class statement,  *)
(* AutoParamsMeta.__init__) and one instance of it is constructed           *)
(* (AutoParamsMeta.__call__).                                              *)
(***************************************************************************)
P0 == <<"p", "0">>
ZKEY == <<"z">>

BindParamLists == {<<>>, <<PA>>, <<PA, PB>>, <<PC, PA>>}

DefVals == {2, 3}

SeqsUpTo(S, n) == UNION {[1..k -> S] : k \in 0..n}

\* signatures of f: with or without self, the data argument x, the parameters,
\* defaults for the last arguments (Python lets x carry one only when every
\* parameter carries one), *args and **kwargs
SigsOver(pre, ps) ==
    {[args |-> pre \o <<XARG>> \o ps, defaults |-> d, varargs |-> va, varkw |-> FALSE] :
        d \in SeqsUpTo(DefVals, Len(ps) + 1), va \in BOOLEAN}

BindSigs ==
    UNION {SigsOver(<<SELFARG>>, ps) : ps \in BindParamLists}
    \cup SigsOver(<<>>, <<PA>>)
    \cup {[args |-> <<SELFARG, XARG, PA>>, defaults |-> <<>>, varargs |-> va, varkw |-> TRUE] :
               va \in BOOLEAN}

NoClsAttrs ==
    [paramsname |-> [kind |-> "absent", v |-> <<>>], vardefaults |-> EmptyDict, customfit |-> FALSE]

\* class attributes read for variable-arity classes: paramsname and "_<p>_default"
BindClsAttrs(sig) ==
    IF ~sig.varargs THEN {NoClsAttrs}
    ELSE {NoClsAttrs,
          [paramsname |-> [kind |-> "str", v |-> PB], vardefaults |-> (<<"b", "1">> :> MaxVal),
           customfit |-> FALSE],
          [paramsname |-> [kind |-> "tuple", v |-> <<PP, PB>>], vardefaults |-> (P0 :> MaxVal),
           customfit |-> FALSE]}

BindArgs == SeqsUpTo(0..MaxNParams, 2)

BindKwargs ==
    UNION {{nk @@ [k \in K |-> MaxVal] : K \in {{}, {PA}, {P0}, {ZKEY}, {PA, P0}}} :
              nk \in {EmptyDict} \cup {(NPARAMS :> n) : n \in 0..MaxNParams}}

InitBind ==
    /\ classes = EmptyDict
    /\ heap = <<>>
    /\ registry = EmptyDict
    /\ fit = Idle
    /\ last = [op |-> "init"]

\* class M(FunctionModel1DAuto): def f(...)  -- runs AutoParamsMeta.__init__
DefineClass(sig, clsattrs) ==
    /\ last.op = "init"
    /\ LET r == MetaInit(sig, clsattrs)
       IN /\ classes' = IF r.exc = "none" THEN ("M" :> r.cls) ELSE classes
          /\ last' = [op |-> "define", exc |-> r.exc, sig |-> sig]
    /\ UNCHANGED <<heap, registry, fit>>

\* M(*args, **kwargs)  -- runs AutoParamsMeta.__call__
Instantiate(args, kwargs) ==
    /\ last.op = "define"
    /\ "M" \in DOMAIN classes
    /\ LET r == MetaCall("M", classes["M"], args, kwargs)
       IN /\ heap' = IF r.exc = "none" THEN <<r.obj>> ELSE heap
          /\ last' = [op |-> "instantiate", exc |-> r.exc, args |-> args, kwargs |-> kwargs]
    /\ UNCHANGED <<classes, registry, fit>>

NextBind ==
    \/ \E sig \in BindSigs : \E ca \in BindClsAttrs(sig) : DefineClass(sig, ca)
    \/ \E args \in BindArgs, kwargs \in BindKwargs : Instantiate(args, kwargs)

SpecBind == InitBind /\ [][NextBind]_vars

(***************************************************************************)
(* What a signature declares, read off the signature the way Python binds  *)
(* defaults: to the last arguments.                                        *)
(***************************************************************************)
DeclaredParams(sig) ==
    SubSeq(sig.args, IF sig.args[1] \in {SELFARG, CLSARG} THEN 3 ELSE 2, Len(sig.args))

DeclaredDefault(sig, i) ==
    LET k == Len(DeclaredParams(sig))
        d == Len(sig.defaults)
    IN IF i > k - d THEN sig.defaults[i - (k - d)] ELSE 1

\* the last operation constructed an instance and was given no argument at all
BareInstantiate == last.op = "instantiate" /\ last.args = <<>> /\ last.kwargs = EmptyDict

CountOnly ==
    /\ last.op = "instantiate"
    /\ classes["M"].openarity
    /\ \/ Len(last.args) = 1 /\ last.kwargs = EmptyDict
       \/ last.args = <<>> /\ DOMAIN last.kwargs = {NPARAMS}

CountGiven == IF last.args = <<>> THEN last.kwargs[NPARAMS] ELSE last.args[1]

\* C4: constructing a variable-arity model from a parameter count n alone
\* (first positional argument or nparams keyword) yields params equal to the
\* fixed prefix followed by exactly n generated parameters, and every
\* parameter holds its default (a generated one 1 unless the class declares
\* "_<p>_default").
C4_VariableArityBinding ==
    CountOnly =>
        LET c == classes["M"]
            fixed == DeclaredParams(c.sig)
            ps == Params(heap, 1)
        IN /\ last.exc = "none"
           /\ Len(ps) = Len(fixed) + CountGiven
           /\ SubSeq(ps, 1, Len(fixed)) = fixed
           /\ \A i \in 1..Len(ps) :
                 Parvals(classes, heap, 1)[i] =
                    IF i <= Len(fixed) THEN DeclaredDefault(c.sig, i)
                    ELSE IF ps[i] \in DOMAIN c.vardefaults THEN c.vardefaults[ps[i]]
                    ELSE 1

(***************************************************************************)
(* The model registry: register_model and get_model.  Registry names are   *)
(* character sequences; lower() and replace('model', '') are computed.     *)
(***************************************************************************)
UpperChars == <<"A","B","C","D","E","F","G","H","I","J","K","L","M",
                "N","O","P","Q","R","S","T","U","V","W","X","Y","Z">>
LowerChars == <<"a","b","c","d","e","f","g","h","i","j","k","l","m",
                "n","o","p","q","r","s","t","u","v","w","x","y","z">>

\* str.lower()
StrLower(s) ==
    [i \in 1..Len(s) |->
        IF InSeq(s[i], UpperChars) THEN LowerChars[IndexOf(UpperChars, s[i])] ELSE s[i]]

\* str.replace(sub, ''): the non-overlapping occurrences of sub, left to right
RECURSIVE StrRemove(_, _)
StrRemove(s, sub) ==
    IF Len(s) < Len(sub) THEN s
    ELSE IF SubSeq(s, 1, Len(sub)) = sub THEN StrRemove(SubSeq(s, Len(sub) + 1, Len(s)), sub)
    ELSE <<Head(s)>> \o StrRemove(Tail(s), sub)

MODELSTR == <<"m","o","d","e","l">>

\* the classes handed to the registry: __name__, and the base classes they have
RegClasses ==
    ("GModel" :> [name |-> <<"G","M","o","d","e","l">>, ismodel |-> TRUE, is1d |-> TRUE]) @@
    ("HModel" :> [name |-> <<"H","M","o","d","e","l">>, ismodel |-> TRUE, is1d |-> FALSE]) @@
    ("Other" :> [name |-> <<"O","t","h","e","r">>, ismodel |-> FALSE, is1d |-> FALSE])

NoName == <<>>       \* name=None

\* the registry key register_model computes
RegKey(model, name, stripmodel) ==
    LET n0 == IF name = NoName THEN StrLower(RegClasses[model].name) ELSE StrLower(name)
    IN IF stripmodel THEN StrRemove(n0, MODELSTR) ELSE n0

\* a register_model that keeps the entry already stored under the key
RegisterModelKeepFirst(reg, model, name, overwrite, stripmodel) ==
    IF ~RegClasses[model].ismodel THEN [exc |-> "TypeError", reg |-> reg]
    ELSE IF RegKey(model, name, stripmodel) \in DOMAIN reg THEN [exc |-> "none", reg |-> reg]
    ELSE [exc |-> "none", reg |-> SetKey(reg, RegKey(model, name, stripmodel), model)]

\* register_model(model, name, overwrite, stripmodel) on registry reg
RegisterModel(reg, model, name, overwrite, stripmodel) ==
    IF ~RegClasses[model].ismodel THEN [exc |-> "TypeError", reg |-> reg]
    ELSE IF overwrite /\ RegKey(model, name, stripmodel) \in DOMAIN reg
    THEN [exc |-> "KeyError", reg |-> reg]
    ELSE [exc |-> "none", reg |-> SetKey(reg, RegKey(model, name, stripmodel), model)]

\* get_model(model, baseclass) for a name or a class; baseclass is "none" or
\* "FunctionModel1D"
GetModel(reg, model, isname, baseclass) ==
    LET found == IF isname
                 THEN IF model \in DOMAIN reg THEN [exc |-> "none", res |-> reg[model]]
                      ELSE [exc |-> "KeyError", res |-> "none"]
                 ELSE IF RegClasses[model].ismodel THEN [exc |-> "none", res |-> model]
                      ELSE [exc |-> "TypeError", res |-> "none"]
    IN IF found.exc # "none" THEN found
       ELSE IF baseclass = "FunctionModel1D" /\ ~RegClasses[found.res].is1d
       THEN [exc |-> "TypeError", res |-> "none"]
       ELSE found

\* lines 2220-2223: the include loop; res becomes include inside the loop
RECURSIVE IncludeLoop(_, _, _)
IncludeLoop(res, include, rest) ==
    IF rest = <<>> THEN [exc |-> "none", res |-> res]
    ELSE IF ~InSeq(Head(rest), res) THEN [exc |-> "ValueError", res |-> <<>>]
    ELSE IncludeLoop(include, include, Tail(rest))

\* lines 2227-2230: the exclude loop
RECURSIVE ExcludeLoop(_, _)
ExcludeLoop(res, rest) ==
    IF rest = <<>> THEN [exc |-> "none", res |-> res]
    ELSE IF ~InSeq(Head(rest), res) THEN [exc |-> "ValueError", res |-> <<>>]
    ELSE ExcludeLoop(Remove(res, Head(rest)), Tail(rest))

\* lines 2210-2213: the registry keys, those of subclasses of baseclass when
\* one is given ("none" or "FunctionModel1D")
ListedKeys(reg, baseclass) ==
    SetToSeq({k \in DOMAIN reg : baseclass = "none" \/ RegClasses[reg[k]].is1d})

\* list_models(include, exclude, baseclass); include and exclude are <<>> for
\* None and <<names>> for a sequence of names
ListModels(reg, include, exclude, baseclass) ==
    IF include # <<>>
    THEN IF exclude # <<>> THEN [exc |-> "TypeError", res |-> <<>>]
         ELSE IncludeLoop(ListedKeys(reg, baseclass), include[1], include[1])
    ELSE IF exclude # <<>> THEN ExcludeLoop(ListedKeys(reg, baseclass), exclude[1])
    ELSE [exc |-> "none", res |-> ListedKeys(reg, baseclass)]

(***************************************************************************)
(* SpecRegistry: registrations and lookups on the process-wide registry.   *)
(***************************************************************************)
RegNames ==
    {NoName, <<"g">>, <<"G">>, <<"G","M","o","d","e","l">>}

InitRegistry ==
    /\ classes = EmptyDict
    /\ heap = <<>>
    /\ registry = EmptyDict
    /\ fit = Idle
    /\ last = [op |-> "init"]

DoRegister(model, name, overwrite, stripmodel) ==
    /\ LET r == RegisterModel(registry, model, name, overwrite, stripmodel)
       IN /\ registry' = r.reg
          /\ last' = [op |-> "register_model", exc |-> r.exc, model |-> model, name |-> name,
                      overwrite |-> overwrite, stripmodel |-> stripmodel]
    /\ UNCHANGED <<classes, heap, fit>>

DoGetModel(model, isname, baseclass) ==
    /\ LET r == GetModel(registry, model, isname, baseclass)
       IN last' = [op |-> "get_model", exc |-> r.exc, res |-> r.res, model |-> model,
                   isname |-> isname, baseclass |-> baseclass]
    /\ UNCHANGED <<classes, heap, registry, fit>>

NextRegistry ==
    \/ \E model \in DOMAIN RegClasses, name \in RegNames, overwrite \in BOOLEAN,
          stripmodel \in BOOLEAN : DoRegister(model, name, overwrite, stripmodel)
    \/ \E name \in RegNames \ {NoName}, baseclass \in {"none", "FunctionModel1D"} :
          DoGetModel(name, TRUE, baseclass)
    \/ \E model \in DOMAIN RegClasses, baseclass \in {"none", "FunctionModel1D"} :
          DoGetModel(model, FALSE, baseclass)

SpecRegistry == InitRegistry /\ [][NextRegistry]_vars

\* the step is a register_model call on a model class under a key the registry holds
DuplicateStep ==
    /\ last'.op = "register_model"
    /\ RegClasses[last'.model].ismodel
    /\ RegKey(last'.model, last'.name, last'.stripmodel) \in DOMAIN registry

\* C7: register_model with a name whose normalized form is already in the
\* registry fails with KeyError and leaves the registry unchanged when overwrite
\* is not requested, and replaces the entry without error when overwrite=True.
C7_DuplicateRegistration ==
    [][DuplicateStep =>
          IF last'.overwrite
          THEN /\ last'.exc = "none"
               /\ registry' = SetKey(registry, RegKey(last'.model, last'.name, last'.stripmodel),
                                     last'.model)
          ELSE /\ last'.exc = "KeyError"
               /\ registry' = registry]_vars

\* the step is a get_model by name, with no base class asked for, that directly
\* follows a successful register_model given an explicit name
LookupAfterRegister ==
    /\ last.op = "register_model" /\ last.exc = "none" /\ last.name # NoName
    /\ last'.op = "get_model" /\ last'.isname /\ last'.baseclass = "none"

\* C8 as stated: for every name N (any letter case, with or without 'model'),
\* after register_model(C, name=N) succeeds, get_model(N) returns C.
C8_RoundTripAnyName ==
    [][(LookupAfterRegister /\ last'.model = last.name) =>
          (last'.exc = "none" /\ last'.res = last.model)]_vars

\* N is what register_model would store it under: lower case, and (stripmodel)
\* without the substring 'model'
HasModelStr(n) == \E i \in 1..Len(n) : i + 4 <= Len(n) /\ SubSeq(n, i, i + 4) = MODELSTR

IsStoredForm(n, stripmodel) ==
    /\ \A i \in 1..Len(n) : ~InSeq(n[i], UpperChars)
    /\ stripmodel => ~HasModelStr(n)

\* C8 amended: after register_model(C, name=N) succeeds, get_model returns C when
\* it is given the stored form of N (N lower-cased, with 'model' removed under
\* stripmodel); get_model(N) itself returns C when N already is in that form.
C8_RoundTripStoredName ==
    [][LookupAfterRegister =>
          /\ (last'.model = last.name /\ IsStoredForm(last.name, last.stripmodel)) =>
                (last'.exc = "none" /\ last'.res = last.model)
          /\ (IsStoredForm(last'.model, last.stripmodel)
                 /\ \/ last'.model = StrLower(last.name) /\ ~last.stripmodel
                    \/ last'.model = StrRemove(StrLower(last.name), MODELSTR) /\ last.stripmodel) =>
                (last'.exc = "none" /\ last'.res = last.model)]_vars

\* a class was registered under the key 'g' and get_model('g') returned it
C8_Witness ==
    /\ last.op = "get_model" /\ last.isname /\ last.model = <<"g">>
    /\ last.exc = "none" /\ last.res = "HModel"
    /\ registry[<<"g">>] = "HModel"


(***************************************************************************)
(* Evaluation.  Arrays are represented by their shape; a model function is *)
(* elementwise, so its output has the shape of x.  What is modelled is the *)
(* effect of an evaluation on the stored parameters.                       *)
(***************************************************************************)
OkH(h) == [exc |-> "none", h |-> h]

\* self.f(x, *pars) of a leaf class, and CompositeModel1D.f: the parameters
\* are set from pars, then [m.f(x, *m.parvals) for m in self._models]
RECURSIVE FEval(_, _, _, _)
RECURSIVE FEvalModels(_, _, _)
RECURSIVE FilterFunc(_, _, _, _)

\* m.f(x, *m.parvals), pv being the outcome of reading m.parvals
FEvalWith(ct, o, pv) ==
    IF pv.exc # "none" THEN [exc |-> pv.exc, h |-> pv.h]
    ELSE FEval(ct, pv.h, o, pv.vals)

FEvalModelsNext(ct, e, ids) == IF e.exc # "none" THEN e ELSE FEvalModels(ct, e.h, ids)

FEvalModels(ct, h, ids) ==
    IF ids = <<>> THEN OkH(h)
    ELSE FEvalModelsNext(ct, FEvalWith(ct, Head(ids), GetParvals(ct, h, Head(ids))), Tail(ids))

\* eval(self._opstr) indexes mval[len(ops)]
FEvalOps(obj, e) ==
    IF e.exc = "none" /\ Len(obj.ops) >= Len(obj.models) THEN [exc |-> "IndexError", h |-> e.h]
    ELSE e

\* self._rmodel(r) in FunctionModel2DScalarDeformedRadial.f (line 2069):
\* FunctionModel1D.__call__ of the radial model, pv being its parvals
CallRmodel(ct, o, pv) ==
    IF pv.exc # "none" THEN [exc |-> pv.exc, h |-> pv.h]
    ELSE FilterFunc(ct, pv.h, o, pv.vals)

FEval(ct, h, o, pars) ==
    IF ct[h[o].cls].kind = "composite"
    THEN FEvalOps(h[o], FEvalModels(ct, SetAll(ct, h, o, Params(h, o), pars), h[o].models))
    ELSE IF ct[h[o].cls].kind = "deformed"
    \* lines 2059-2061: pa and atob are popped from the end of params
    THEN IF Len(pars) < 2 THEN [exc |-> "IndexError", h |-> h]
         ELSE CallRmodel(ct, h[o].rmodel, GetParvals(ct, h, h[o].rmodel))
    ELSE IF ~ct[h[o].cls].openarity /\ Len(pars) # Len(h[o].pars)
         THEN [exc |-> "TypeError", h |-> h]
    ELSE OkH(h)

\* FunctionModel1D.integrate as called from a redirected call: ps = self.parvals,
\* then self.f(x, *ps) at the sample points
Integrate(ct, h, o) == FEvalWith(ct, o, GetParvals(ct, h, o))

\* the callfunc installed by setCall: self.parvals = pars (outcome sp), then
\* the integral
CallFunc(ct, o, sp) == IF sp.exc # "none" THEN sp ELSE Integrate(ct, sp.h, o)

\* self._filterfunc(x, *pars): self.f, or the callfunc installed by setCall
FilterFunc(ct, h, o, pars) ==
    IF h[o].calltype = "none" THEN FEval(ct, h, o, pars)
    ELSE CallFunc(ct, o, SetParvals(ct, h, o, pars))

\* fitfunc of fitData
FitFunc(ct, h, o, fitf, pars) ==
    IF fitf THEN FEval(ct, h, o, pars) ELSE FilterFunc(ct, h, o, pars)

\* FunctionModel1D.setCall(type, xtrans, ytrans, **kwargs).  type is "none" for
\* None; a transform is "None", a string or a function; kwargs is a dictionary
\* on keyword names.
TransNames == {"log", "ln", "pow", "exp"}      \* the keys of transmap (line 1148)
Callables == {"neg"}                           \* a function: lambda v: -v
MethodNames == {"derivative", "integrate"}     \* callable attributes of a 1-D model
IntegrateTypes == {"integrate"}                \* the types with 'integrate' in them

IsString(t) == t # "None" /\ t \notin Callables

\* lines 1174-1182 and 1212-1219: the keyword the call input is bound to, and
\* the keywords handed to the method
CallKw(type, kwargs) ==
    IF type \in IntegrateTypes
    THEN IF "upper" \in DOMAIN kwargs /\ "lower" \in DOMAIN kwargs
         THEN [exc |-> "ValueError", xkw |-> "none", kw |-> kwargs]
         ELSE IF "upper" \in DOMAIN kwargs THEN [exc |-> "none", xkw |-> "lower", kw |-> kwargs]
         ELSE IF "lower" \in DOMAIN kwargs THEN [exc |-> "none", xkw |-> "upper", kw |-> kwargs]
         ELSE [exc |-> "none", xkw |-> "upper", kw |-> SetKey(kwargs, "lower", 0)]
    \* derivative(self, x, dx=1): the first argument that kwargs does not name
    ELSE IF "x" \notin DOMAIN kwargs THEN [exc |-> "none", xkw |-> "x", kw |-> kwargs]
    ELSE IF "dx" \notin DOMAIN kwargs THEN [exc |-> "none", xkw |-> "dx", kw |-> kwargs]
    ELSE [exc |-> "ValueError", xkw |-> "none", kw |-> kwargs]

\* a setCall that keeps the transform installed earlier when it is given none
InstallKeep(h, o, type, xtrans, ytrans, k) ==
    IF k.exc # "none" THEN [exc |-> k.exc, h |-> h]
    ELSE [exc |-> "none",
          h |-> [h EXCEPT ![o].calltype = type,
                          ![o].xtrans = IF xtrans = "None" THEN @ ELSE xtrans,
                          ![o].ytrans = IF ytrans = "None" THEN @ ELSE ytrans,
                          ![o].callkw = k.kw, ![o].xkw = k.xkw,
                          ![o].filterfunctype = <<type, xtrans, ytrans>>]]

\* lines 1245-1247 (1157-1163 for type None): the new _filterfunc and
\* _filterfunctype
Install(h, o, type, xtrans, ytrans, k) ==
    IF k.exc # "none" THEN [exc |-> k.exc, h |-> h]
    ELSE [exc |-> "none",
          h |-> [h EXCEPT ![o].calltype = type, ![o].xtrans = xtrans, ![o].ytrans = ytrans,
                          ![o].callkw = k.kw, ![o].xkw = k.xkw,
                          ![o].filterfunctype = <<type, xtrans, ytrans>>]]

SetCall(h, o, type, xtrans, ytrans, kwargs) ==
    IF IsString(xtrans) /\ xtrans \notin TransNames THEN [exc |-> "KeyError", h |-> h]
    ELSE IF IsString(ytrans) /\ ytrans \notin TransNames THEN [exc |-> "KeyError", h |-> h]
    ELSE IF type = "none"
    THEN Install(h, o, type, xtrans, ytrans, [exc |-> "none", xkw |-> "none", kw |-> EmptyDict])
    ELSE IF type \notin MethodNames THEN [exc |-> "AttributeError", h |-> h]
    ELSE Install(h, o, type, xtrans, ytrans, CallKw(type, kwargs))

\* FunctionModel1D.getCall: <<>> stands for None
GetCall(h, o) == h[o].filterfunctype

(***************************************************************************)
(* FunctionModel.fitData.  The numeric optimizer is outside the program:   *)
(* it evaluates the residual function at trial vectors of its choosing and *)
(* then returns a vector or raises.  fitData is therefore three steps, the *)
(* record fit holding its locals while the optimizer runs.                 *)
(***************************************************************************)
\* substring test of Python's "in" on strings
Contains(s, t) == \E i \in 1..(Len(s) - Len(t) + 1) : SubSeq(s, i, i + Len(t) - 1) = t

FRAC == <<"f","r","a","c">>
SQ == <<"s","q">>
ABS == <<"a","b","s">>
SUM == <<"s","u","m">>
MEAN == <<"m","e","a","n">>
MEDIAN == <<"m","e","d","i","a","n">>
PROD == <<"p","r","o","d">>
SUMSQ == SUM \o SQ

OptMethods == {"fmin", "fmin_powell", "fmin_cg", "fmin_bfgs", "anneal", "global"}

\* for p in fixedpars: i = ps.index(p); del ps[i]; del v[i]
RECURSIVE RemoveFixed(_, _, _)
RemoveFixed(ps, v, fixedpars) ==
    IF fixedpars = <<>> THEN [exc |-> "none", ps |-> ps, v |-> v]
    ELSE IF ~InSeq(Head(fixedpars), ps) THEN [exc |-> "ValueError", ps |-> ps, v |-> v]
    ELSE LET i == IndexOf(ps, Head(fixedpars))
         IN RemoveFixed(DelAt(ps, i), DelAt(v, i), Tail(fixedpars))

\* the residual function g1 of lines 465-467 returns np.diff, which cannot be
\* multiplied by the weights
BrokenResidual(method, contraction) ==
    /\ method # "leastsq"
    /\ ~Contains(contraction, FRAC) /\ ~Contains(contraction, SQ) /\ ~Contains(contraction, ABS)

\* the arguments of a fitData call
FitCall(xs, ys, ws, method, fixedpars, contraction, fitf) ==
    [xs |-> xs, ys |-> ys, ws |-> ws, method |-> method, fixedpars |-> fixedpars,
     contraction |-> contraction, fitf |-> fitf]

FitFail(e, h) == [exc |-> e, h |-> h, fit |-> Idle]

\* the locals of the call when the optimizer (or the custom routine) is entered
FitLocals(pc, o, c, ps, v, pdict, broken) ==
    [pc |-> pc, o |-> o, fitf |-> c.fitf, fixedpars |-> c.fixedpars, ps |-> ps, v |-> v,
     pdict |-> pdict, xs |-> c.xs, ys |-> c.ys, broken |-> broken]

\* lines 389-393
MethodOf(cls, method) ==
    IF method = "None" THEN IF cls.customfit THEN "custom" ELSE "leastsq" ELSE method

\* lines 417-500: rf is the outcome of removing the fixed parameters and pd of
\* reading their values
FitOptimize(o, c, meth, rf, pd) ==
    IF rf.exc # "none" THEN FitFail(rf.exc, pd.h)
    ELSE IF meth # "leastsq" /\ ~\E t \in {SUM, MEAN, MEDIAN, PROD} : Contains(c.contraction, t)
         THEN FitFail("ValueError", pd.h)
    ELSE IF meth \in {"fmin_ncg", "brute"} THEN FitFail("NotImplementedError", pd.h)
    ELSE IF meth # "leastsq" /\ meth \notin OptMethods THEN FitFail("ValueError", pd.h)
    ELSE [exc |-> "none", h |-> pd.h,
          fit |-> FitLocals("optimizing", o, c, rf.ps, rf.v, pd.vals,
                            BrokenResidual(meth, c.contraction))]

\* pdict is read only after every fixed parameter was found in ps
ReadFixed(ct, o, c, r1, rf) ==
    IF rf.exc # "none" THEN [vals |-> <<>>, exc |-> "none", h |-> r1.h]
    ELSE GetAll(ct, r1.h, o, c.fixedpars)

\* lines 399-416: r1 is the outcome of reading parvals for the initial guess
FitDispatch(ct, o, c, cls, meth, ps, r1) ==
    IF meth = "custom"
    THEN IF ~cls.customfit THEN FitFail("NotImplementedError", r1.h)
         ELSE [exc |-> "none", h |-> r1.h,
               fit |-> FitLocals("custom", o, c, ps, r1.vals, <<>>, FALSE)]
    ELSE FitOptimize(o, c, meth, RemoveFixed(ps, r1.vals, c.fixedpars),
                     ReadFixed(ct, o, c, r1, RemoveFixed(ps, r1.vals, c.fixedpars)))

\* lines 378-387: e0 is the outcome of fitfunc(x, *self.parvals), whose output
\* has the shape of x
FitChecked(ct, o, c, cls, ps, e0) ==
    IF e0.exc # "none" THEN FitFail(e0.exc, e0.h)
    ELSE IF c.xs # c.ys THEN FitFail("ModelTypeError", e0.h)
    ELSE IF c.ws # "None" /\ c.ws # c.ys THEN FitFail("ModelTypeError", e0.h)
    ELSE FitDispatch(ct, o, c, cls, MethodOf(cls, c.method), ps, GetParvals(ct, e0.h, o))

\* an evaluation for the shape check that starts from the default values
FitFuncAtDefaults(ct, o, fitf, r0) ==
    FitFunc(ct, AutoInitPars(ct, r0.h, o), o, fitf, [i \in 1..Len(r0.vals) |-> 1])

FitFuncAt(ct, o, fitf, r0) == FitFunc(ct, r0.h, o, fitf, r0.vals)

\* fitData up to the call of the optimizer (lines 371-500) for the call c; the
\* result has the exception raised, the heap, and the locals of the call
FitStart(ct, h, o, c) ==
    FitChecked(ct, o, c, ct[h[o].cls], Params(h, o), FitFuncAt(ct, o, c.fitf, GetParvals(ct, h, o)))

\* value of the fixed parameter p held in pdict (kept in the order of fixedpars)
FixedValue(f, p) == f.pdict[IndexOf(f.fixedpars, p)]

\* the f(x, v) of lines 427-433: the full parameter list for the free vector v
TrialParams(h, f, v) ==
    IF f.fixedpars = <<>> THEN v
    ELSE [i \in 1..Len(h[f.o].pars) |->
             IF InSeq(h[f.o].pars[i], f.ps) THEN v[IndexOf(f.ps, h[f.o].pars[i])]
             ELSE FixedValue(f, h[f.o].pars[i])]

\* one evaluation of the residual function by the optimizer
TrialEval(ct, h, f, v) == FitFunc(ct, h, f.o, f.fitf, TrialParams(h, f, v))

\* self.lastfit = res: the deformed-radial wrapper stores an attribute on the
\* radial model when hasattr(self._rmodel, name) (lines 2093-2097)
SetLastfit(ct, h, o, res) ==
    IF ct[h[o].cls].kind = "deformed" /\ h[h[o].rmodel].lastfit # <<>>
    THEN [h EXCEPT ![h[o].rmodel].lastfit = res]
    ELSE [h EXCEPT ![o].lastfit = res]

\* self.fitteddata = (x, y): every FunctionModel has the class attribute
\* fitteddata = None (line 235), so hasattr(self._rmodel, 'fitteddata') holds
SetFitteddata(ct, h, o, data) ==
    IF ct[h[o].cls].kind = "deformed" THEN [h EXCEPT ![h[o].rmodel].fitteddata = data]
    ELSE [h EXCEPT ![o].fitteddata = data]

\* reading model.lastfit: the instance attribute, else __getattr__ of the
\* wrapper (lines 2087-2091); <<>> stands for AttributeError
GetLastfit(ct, h, o) ==
    IF h[o].lastfit # <<>> THEN h[o].lastfit
    ELSE IF ct[h[o].cls].kind = "deformed" THEN h[h[o].rmodel].lastfit
    ELSE <<>>

\* reading model.fitteddata: the instance attribute, else the class attribute
\* None of line 235 (found before __getattr__ is tried)
GetFitteddata(h, o) == h[o].fitteddata

\* lines 514-515
FitSave(ct, h, f, savedata) ==
    IF savedata THEN SetFitteddata(ct, h, f.o, <<f.xs, f.ys>>) ELSE h

\* lines 510-512
FitUpdate(ct, h, f, ps, res, updatepars) ==
    IF updatepars THEN SetAll(ct, h, f.o, ps, res) ELSE h

\* lines 502-517: lastfit, the update of the free parameters ps, fitteddata
FitStore(ct, h, f, ps, res, updatepars, savedata) ==
    FitSave(ct, FitUpdate(ct, SetLastfit(ct, h, f.o, <<res>>), f, ps, res, updatepars), f, savedata)

FitResultWith(ct, h, f, rf, res, updatepars, savedata) ==
    IF rf.exc # "none" THEN [exc |-> rf.exc, h |-> h]
    ELSE [exc |-> "none", h |-> FitStore(ct, h, f, rf.ps, res, updatepars, savedata)]

\* the custom method removes the fixed parameters after the routine returned
\* (lines 411-415)
FitResult(ct, h, f, res, updatepars, savedata) ==
    FitResultWith(ct, h, f,
                  IF f.pc = "custom" THEN RemoveFixed(f.ps, f.v, f.fixedpars)
                  ELSE [exc |-> "none", ps |-> f.ps, v |-> f.v],
                  res, updatepars, savedata)

(***************************************************************************)
(* Spec: models that are assigned to, redirected and fitted.  The classes  *)
(* are a plain FunctionModel1D subclass with _pars = ('a','b'), an         *)
(* auto-parameter class f(self,x,c=2) that overrides _customFit, a         *)
(* variable-arity class f(self,x,*args) and CompositeModel1D.  Each        *)
(* behaviour starts from one constructed model, the last object of the     *)
(* heap; a composite's sub-models precede it.                              *)
(***************************************************************************)
LinClass ==
    [kind |-> "plain", descr |-> EmptyDict, openarity |-> FALSE, pars |-> <<PA, PB>>,
     customfit |-> FALSE, defaultparval |-> 1]

ConstClass ==
    MetaInit([args |-> <<SELFARG, XARG, PC>>, defaults |-> <<2>>, varargs |-> FALSE, varkw |-> FALSE],
             [NoClsAttrs EXCEPT !.customfit = TRUE]).cls

PolyClass ==
    MetaInit([args |-> <<SELFARG, XARG>>, defaults |-> <<>>, varargs |-> TRUE, varkw |-> FALSE],
             NoClsAttrs).cls

CompositeClass ==
    [kind |-> "composite", descr |-> EmptyDict, openarity |-> FALSE, pars |-> <<>>,
     customfit |-> FALSE, defaultparval |-> 1]

\* FunctionModel2DScalarDeformedRadial
DeformedClass ==
    [kind |-> "deformed", descr |-> EmptyDict, openarity |-> FALSE, pars |-> <<>>,
     customfit |-> FALSE, defaultparval |-> 1]

ClassTable ==
    [cid \in {"Lin", "Const", "Poly", "Composite", "Deformed"} |->
        CASE cid = "Lin" -> LinClass
          [] cid = "Const" -> ConstClass
          [] cid = "Poly" -> PolyClass
          [] cid = "Deformed" -> DeformedClass
          [] OTHER -> CompositeClass]

Inst(o) == [kind |-> "inst", id |-> o]
PlusOp == [kind |-> "char", op |-> "+"]

\* the heaps a behaviour starts from
Scenarios ==
    LET lin == NewObj("Lin", LinClass.pars, EmptyDict)
        const == MetaCall("Const", ConstClass, <<>>, EmptyDict).obj
        poly == MetaCall("Poly", PolyClass, <<>>, (NPARAMS :> 1)).obj
    IN { <<lin>>, <<const>>, <<poly>>,
         \* CompositeModel1D([m1, m2]) and CompositeModel1D([m, m])
         CompositeInit(ClassTable, <<const, const>>, "Composite", <<Inst(1), Inst(2)>>,
                       PlusOp, EmptyDict, <<>>, TRUE).h,
         CompositeInit(ClassTable, <<const>>, "Composite", <<Inst(1), Inst(1)>>,
                       PlusOp, EmptyDict, <<>>, TRUE).h }

Subject == Len(heap)

Shapes == {"n", "m"}
Contractions == {SUMSQ, SUM, SQ}

Init ==
    /\ classes = ClassTable
    /\ heap \in Scenarios
    /\ registry = EmptyDict
    /\ fit = Idle
    /\ last = [op |-> "init"]

\* setattr(o, name, val) on any model of the heap
SetParam(o, name, val) ==
    /\ fit = Idle
    /\ heap' = SetAttr(classes, heap, o, name, val)
    /\ last' = [op |-> "setattr", exc |-> "none"]
    /\ UNCHANGED <<classes, registry, fit>>

\* the heap and the record of the operation op with outcome r
Done(op, r) ==
    /\ heap' = r.h
    /\ last' = [op |-> op, exc |-> r.exc]

\* model.parvals = newpars
SetParvalsOp(newpars) ==
    /\ fit = Idle
    /\ Done("setparvals", SetParvals(classes, heap, Subject, newpars))
    /\ UNCHANGED <<classes, registry, fit>>

DonePardict(d, r) ==
    /\ heap' = r.h
    /\ last' = [op |-> "setpardict", exc |-> r.exc, d |-> d]

\* model.pardict = d
SetPardictOp(d, order) ==
    /\ fit = Idle
    /\ DonePardict(d, SetPardict(classes, heap, Subject, d, order))
    /\ UNCHANGED <<classes, registry, fit>>

\* reading model.parvals
ReadParvals ==
    /\ fit = Idle
    /\ Done("parvals", GetParvals(classes, heap, Subject))
    /\ UNCHANGED <<classes, registry, fit>>

\* prev is what getCall() returned before the call
SetCallDone(type, xtrans, ytrans, kwargs, r) ==
    /\ heap' = r.h
    /\ last' = [op |-> "setCall", exc |-> r.exc, type |-> type, xtrans |-> xtrans,
                ytrans |-> ytrans, kwargs |-> kwargs, prev |-> GetCall(heap, Subject)]

\* model.setCall(type, xtrans, ytrans, **kwargs)
SetCallOp(type, xtrans, ytrans, kwargs) ==
    /\ fit = Idle
    /\ SetCallDone(type, xtrans, ytrans, kwargs,
                   SetCall(heap, Subject, type, xtrans, ytrans, kwargs))
    /\ UNCHANGED <<classes, registry, fit>>

Started(c, r) ==
    /\ heap' = r.h
    /\ fit' = r.fit
    /\ last' = IF r.exc = "none" THEN [op |-> "fitting"]
               ELSE [op |-> "fit", exc |-> r.exc, xs |-> c.xs, ys |-> c.ys, ws |-> c.ws]

\* model.fitData(x, y, ...) up to the optimizer
FitBegin(xs, ys, ws, method, fixedpars, contraction, fitf) ==
    /\ fit = Idle
    /\ Started(FitCall(xs, ys, ws, method, fixedpars, contraction, fitf),
               FitStart(classes, heap, Subject,
                        FitCall(xs, ys, ws, method, fixedpars, contraction, fitf)))
    /\ UNCHANGED <<classes, registry>>

\* a trial evaluation raises, or the residual function is the broken one
Tried(e) ==
    /\ heap' = e.h
    /\ IF e.exc # "none" \/ fit.broken
       THEN /\ fit' = Idle
            /\ last' = [op |-> "fit", exc |-> IF e.exc # "none" THEN e.exc ELSE "TypeError"]
       ELSE UNCHANGED <<fit, last>>

\* the optimizer evaluates the residual function at the vector v
FitTrial(v) ==
    /\ fit.pc = "optimizing"
    /\ Tried(TrialEval(classes, heap, fit, v))
    /\ UNCHANGED <<classes, registry>>

\* the optimizer (or the custom routine) raises
FitRaise ==
    /\ fit.pc \in {"optimizing", "custom"}
    /\ fit' = Idle
    /\ last' = [op |-> "fit", exc |-> "OptimizerError"]
    /\ UNCHANGED <<classes, heap, registry>>

Fitted(r, res, updatepars, savedata) ==
    /\ heap' = r.h
    /\ last' = [op |-> "fit", exc |-> r.exc, ret |-> res,
                updatepars |-> updatepars, savedata |-> savedata]

\* the optimizer (or the custom routine) returns res; lines 502-517.  A return
\* with no trial stands for one whose only evaluation was at the initial guess,
\* which assigns the parameters the values they have.
FitEnd(res, updatepars, savedata) ==
    /\ fit.pc \in {"optimizing", "custom"}
    /\ ~fit.broken
    /\ Fitted(FitResult(classes, heap, fit, res, updatepars, savedata), res, updatepars, savedata)
    /\ fit' = Idle
    /\ UNCHANGED <<classes, registry>>

\* inputs: values, value vectors, dictionaries and the fixedpars tuples
ParamNames == Range(Params(heap, Subject))
Vectors(n) == [1..n -> Vals]
PardictInputs == UNION {[K -> Vals] : K \in SUBSET ParamNames} \cup {(ZKEY :> 1)}
FixedParsInputs ==
    {<<>>, <<ZKEY>>, Params(heap, Subject)} \cup {<<name>> : name \in ParamNames}

\* the fitData calls made: every validation of the call is met by a call that
\* passes it and by one that fails it, and the accepted calls vary the data, the
\* evaluator, the method, the fixed parameters and the contraction
FitCalls ==
    {FitCall(xs, xs, "None", "None", <<>>, SUMSQ, ff) : xs \in Shapes, ff \in BOOLEAN}
    \cup {FitCall("n", "m", "None", "None", <<>>, SUMSQ, ff) : ff \in BOOLEAN}
    \cup {FitCall("n", "n", ws, "None", <<>>, SUMSQ, FALSE) : ws \in Shapes}
    \cup {FitCall("n", "n", "None", "leastsq", fp, SUMSQ, FALSE) : fp \in FixedParsInputs}
    \cup {FitCall("n", "n", "None", "custom", fp, SUMSQ, FALSE) :
             fp \in {<<>>, <<ZKEY>>, <<Params(heap, Subject)[1]>>}}
    \cup {FitCall("n", "n", "None", "leastsq", <<>>, SUMSQ, TRUE)}
    \cup {FitCall("n", "n", "None", "fmin", <<>>, c, FALSE) : c \in Contractions}
    \cup {FitCall("n", "n", "None", m, <<>>, SUMSQ, FALSE) : m \in {"fmin_ncg", "simplex"}}

\* the vectors an optimizer returns: those with all entries equal, and the one
\* with the distinct entries 1, 2, ...
ResultVectors(n) ==
    {[i \in 1..n |-> val] : val \in Vals} \cup {[i \in 1..n |-> Min(i, MaxVal)]}

\* the vectors assigned to parvals: every vector that fits, and one that is too long
ParvalsInputs ==
    UNION {Vectors(n) : n \in 1..Len(Params(heap, Subject))}
    \cup {[i \in 1..(Len(Params(heap, Subject)) + 1) |-> 1]}

Next ==
    \/ \E o \in 1..Len(heap) : \E name \in Range(Params(heap, o)) : \E val \in Vals :
          SetParam(o, name, val)
    \/ \E newpars \in ParvalsInputs : SetParvalsOp(newpars)
    \/ \E d \in PardictInputs : \E order \in Perms(DOMAIN d) : SetPardictOp(d, order)
    \/ ReadParvals
    \/ SetCallOp("integrate", "None", "None", EmptyDict)
    \/ \E c \in FitCalls :
          FitBegin(c.xs, c.ys, c.ws, c.method, c.fixedpars, c.contraction, c.fitf)
    \/ fit # Idle /\ \E v \in Vectors(Len(fit.ps)) : FitTrial(v)
    \/ FitRaise
    \/ fit # Idle /\ \E res \in ResultVectors(Len(fit.ps)) : \E updatepars, savedata \in BOOLEAN :
          /\ res # <<>>
          /\ FitEnd(res, updatepars, savedata)

Spec == Init /\ [][Next]_vars


(***************************************************************************)
(* Properties of Spec.                                                     *)
(***************************************************************************)
Objects == 1..Len(heap)
IsComposite(o) == classes[heap[o].cls].kind = "composite"
Value(h, o, name) == GetAttr(classes, h, o, name).v

\* C1: after any sequence of construction, parameter assignment (by attribute,
\* by parvals or by pardict), setCall and fitData calls, reading parvals of a
\* model gives as many values as the model has parameter names.
C1_ParamsParvalsLength ==
    \A o \in Objects :
        /\ GetParvals(classes, heap, o).exc = "none"
        /\ Len(GetParvals(classes, heap, o).vals) = Len(Params(heap, o))

\* a composite redirected with setCall has been fitted and updated
C1_Witness ==
    /\ IsComposite(Subject)
    /\ heap[Subject].calltype = "integrate"
    /\ last.op = "fit" /\ last.exc = "none" /\ last.updatepars
    /\ Len(Parvals(classes, heap, Subject)) = Len(Params(heap, Subject))
    /\ Len(Params(heap, Subject)) > 1

\* C2: after model.pardict = d for a dictionary d whose keys are exactly the
\* parameter names, reading model.pardict returns a dictionary equal to d.
C2_PardictRoundTrip ==
    (last.op = "setpardict" /\ last.exc = "none" /\ DOMAIN last.d = ParamNames) =>
        GetPardict(classes, heap, Subject).d = last.d

\* the step is a fitData call that is rejected before the optimizer is entered
FitRejected == fit = Idle /\ fit' = Idle /\ last'.op = "fit"

FitReturns == fit # Idle /\ fit' = Idle /\ last'.op = "fit" /\ last'.exc = "none"

\* the value a parameter had when the running fitData call read the initial
\* guess (line 400) and the fixed values (line 426)
StartValue(f, name) ==
    IF InSeq(name, f.ps) THEN f.v[IndexOf(f.ps, name)] ELSE FixedValue(f, name)

\* params with the names of fixedpars removed, in params order
FreeParams(pars, fixedpars) == SelectSeq(pars, LAMBDA name : ~InSeq(name, fixedpars))

\* C9: after a successful fitData with fixedpars F and updatepars=True, every
\* parameter named in F has its pre-call value, and each free parameter, in
\* params order with F removed, equals the corresponding entry of the
\* returned vector.
C9_FixedParsInFit ==
    [][(FitReturns /\ last'.updatepars) =>
          /\ \A i \in 1..Len(fit.fixedpars) :
                Value(heap', Subject, fit.fixedpars[i]) = StartValue(fit, fit.fixedpars[i])
          /\ \A i \in 1..Len(FreeParams(Params(heap, Subject), fit.fixedpars)) :
                Value(heap', Subject, FreeParams(Params(heap, Subject), fit.fixedpars)[i])
                   = last'.ret[i]]_vars

\* C10: fitData with updatepars=False returns the best-fit vector and leaves
\* every parameter value as it was before the call, for plain models, models
\* redirected with setCall and composites (every sub-model parameter is a
\* parameter of the composite).
C10_UpdateparsFalse ==
    [][(FitReturns /\ ~last'.updatepars) =>
          \A i \in 1..Len(Params(heap, Subject)) :
             Value(heap', Subject, Params(heap, Subject)[i])
                = StartValue(fit, Params(heap, Subject)[i])]_vars


\* the step ends a fitData call with an exception
FitFails == last'.op = "fit" /\ last'.exc # "none" /\ fit' = Idle

\* C11: when fitData fails -- an unrecognized method, method='custom' without a
\* custom routine, an invalid contraction, an unknown name in fixedpars, or an
\* exception of the optimizer after it evaluated the model at trial vectors --
\* the parameter values, lastfit and fitteddata are what they were before the
\* call, for plain and composite models alike.
C11_FitFailureAtomic ==
    [][/\ (FitFails /\ fit = Idle) =>
             \A o \in Objects :
                /\ Parvals(classes, heap', o) = Parvals(classes, heap, o)
                /\ heap'[o].lastfit = heap[o].lastfit
                /\ heap'[o].fitteddata = heap[o].fitteddata
       /\ (FitFails /\ fit # Idle) =>
             \A i \in 1..Len(Params(heap, Subject)) :
                Value(heap', Subject, Params(heap, Subject)[i])
                   = StartValue(fit, Params(heap, Subject)[i])
       /\ (fit # Idle /\ ~FitReturns) =>
             \A o \in Objects :
                /\ heap'[o].lastfit = heap[o].lastfit
                /\ heap'[o].fitteddata = heap[o].fitteddata]_vars


(***************************************************************************)
(* SpecEval: values of composites.  The sub-models are of the classes      *)
(* above, with f(x, a, b) = a*x + b for the plain class, f(x, c) = c for   *)
(* the auto-parameter class and a polynomial for the variable-arity class. *)
(* A composite evaluates eval(self._opstr), the Python expression          *)
(* mval[0] op1 mval[1] op2 ... : Python parses it with '*' binding tighter *)
(* than '+' and '-', operators of one level associating to the left.       *)
(***************************************************************************)
ApplyOp(op, a, b) ==
    CASE op = "+" -> a + b
      [] op = "-" -> a - b
      [] OTHER -> a * b

\* a fold of the operators from the left, whatever the operators
RECURSIVE EvalLeftFold(_, _, _, _)
EvalLeftFold(mval, ops, acc, i) ==
    IF i > Len(ops) THEN acc
    ELSE EvalLeftFold(mval, ops, ApplyOp(ops[i], acc, mval[i + 1]), i + 1)

EvalOpstrLeftFold(mval, ops) == EvalLeftFold(mval, ops, mval[1], 1)

\* Python's term: mval[i] * mval[i+1] * ... up to the next '+' or '-';
\* returns the product and the index of the operator that follows it
RECURSIVE EvalTerm(_, _, _, _)
EvalTerm(mval, ops, acc, i) ==
    IF i <= Len(ops) /\ ops[i] = "*" THEN EvalTerm(mval, ops, acc * mval[i + 1], i + 1)
    ELSE [val |-> acc, next |-> i]

\* Python's arithmetic expression: term (('+' | '-') term)*
RECURSIVE EvalExpr(_, _, _, _)
EvalExprNext(mval, ops, acc, i, t) == EvalExpr(mval, ops, ApplyOp(ops[i], acc, t.val), t.next)

EvalExpr(mval, ops, acc, i) ==
    IF i > Len(ops) THEN acc
    ELSE EvalExprNext(mval, ops, acc, i, EvalTerm(mval, ops, mval[i + 1], i + 1))

EvalFirst(mval, ops, t) == EvalExpr(mval, ops, t.val, t.next)

\* eval(self._opstr)
EvalOpstr(mval, ops) == EvalFirst(mval, ops, EvalTerm(mval, ops, mval[1], 1))

RECURSIVE PolyValue(_, _, _)
PolyValue(x, pars, i) ==
    IF i > Len(pars) THEN 0 ELSE pars[i] + x * PolyValue(x, pars, i + 1)

\* f(x, *pars) of the leaf classes
LeafF(cid, x, pars) ==
    CASE cid = "Lin" -> pars[1] * x + pars[2]
      [] cid = "Const" -> pars[1]
      [] OTHER -> PolyValue(x, pars, 1)

\* a filter is a callable on the result (negation, doubling, the bndfunc of
\* addLowerBoundFilter) or an object that is not callable
Filter(kind, bound) == [kind |-> kind, bound |-> bound]
Callable(filter) == filter.kind \in {"neg", "dbl", "bound"}

\* filter(res); bndfunc of lines 1421-1424 is x[x<bound] = bound
ApplyFilter(filter, res) ==
    CASE filter.kind = "neg" -> 0 - res
      [] filter.kind = "dbl" -> 2 * res
      [] OTHER -> IF res < filter.bound THEN filter.bound ELSE res

\* lines 1396-1401: _filters is None (the empty tuple here) or holds the list
RECURSIVE ApplyList(_, _)
ApplyList(fs, res) == IF fs = <<>> THEN res ELSE ApplyList(Tail(fs), ApplyFilter(Head(fs), res))

ApplyFilters(filters, res) == IF filters = <<>> THEN res ELSE ApplyList(filters[1], res)

\* an addFilter that puts the new filter in front of the list
AddFilterFirst(h, o, filter) ==
    IF ~Callable(filter)
    THEN [exc |-> "ValueError", h |-> [h EXCEPT ![o].filters = IF @ = <<>> THEN <<<<>>>> ELSE @]]
    ELSE [exc |-> "none",
          h |-> [h EXCEPT ![o].filters = IF @ = <<>> THEN <<<<filter>>>> ELSE <<<<filter>> \o @[1]>>]]

\* CompositeModel1D.addFilter (lines 1403-1413): the list is created before
\* the filter is tested
AddFilter(h, o, filter) ==
    IF ~Callable(filter)
    THEN [exc |-> "ValueError", h |-> [h EXCEPT ![o].filters = IF @ = <<>> THEN <<<<>>>> ELSE @]]
    ELSE [exc |-> "none",
          h |-> [h EXCEPT ![o].filters = IF @ = <<>> THEN <<<<filter>>>> ELSE <<Append(@[1], filter)>>]]

\* CompositeModel1D.clearFilters (lines 1415-1419)
ClearFilters(h, o) == [exc |-> "none", h |-> [h EXCEPT ![o].filters = <<>>]]

\* CompositeModel1D.addLowerBoundFilter (lines 1421-1425)
AddLowerBoundFilter(h, o, bound) == AddFilter(h, o, Filter("bound", bound))

\* the value of m.f(x, *m.parvals) on the heap h
RECURSIVE FValue(_, _, _, _)
FValue(ct, h, o, x) ==
    IF ct[h[o].cls].kind = "composite"
    THEN ApplyFilters(h[o].filters,
                      EvalOpstr([i \in 1..Len(h[o].models) |-> FValue(ct, h, h[o].models[i], x)],
                                h[o].ops))
    ELSE LeafF(h[o].cls, x, Parvals(ct, h, o))

Raised(e, h) == [exc |-> e, h |-> h, value |-> 0]

\* self.f(x, *pars): the outcome e of the evaluation, with its value
FWithValue(ct, o, x, pars, e) ==
    IF e.exc # "none" THEN Raised(e.exc, e.h)
    ELSE [exc |-> "none", h |-> e.h,
          value |-> IF ct[e.h[o].cls].kind = "composite" THEN FValue(ct, e.h, o, x)
                    ELSE LeafF(e.h[o].cls, x, pars)]

FWith(ct, h, o, x, pars) == FWithValue(ct, o, x, pars, FEval(ct, h, o, pars))

\* 10 ** v
RECURSIVE Pow10(_)
Pow10(v) == IF v <= 0 THEN 1 ELSE 10 * Pow10(v - 1)

\* xtrans(x) and ytrans(y) for the transforms that map integers to integers
ApplyTrans(t, v) ==
    CASE t = "pow" -> Pow10(v)
      [] t = "neg" -> 0 - v
      [] OTHER -> v

ApplyY(t, r) == IF r.exc # "none" THEN r ELSE [r EXCEPT !.value = ApplyTrans(t, r.value)]

\* the integrator is outside the program: it is given f, the bounds and
\* args=ps (line 1046), and is modelled by the trapezoid estimate over the two
\* bounds, (upper - lower) * (f(lower) + f(upper)) / 2, in whole numbers
IntegrateEnds(lower, upper, a, b) ==
    IF b.exc # "none" THEN b
    ELSE [exc |-> "none", h |-> b.h,
          value |-> ((upper - lower) * (a.value + b.value)) \div 2]

IntegrateUpper(ct, o, lower, upper, ps, a) ==
    IF a.exc # "none" THEN a
    ELSE IntegrateEnds(lower, upper, a, FWith(ct, a.h, o, upper, ps))

IntegrateWith(ct, o, lower, upper, pv) ==
    IF pv.exc # "none" THEN Raised(pv.exc, pv.h)
    ELSE IntegrateUpper(ct, o, lower, upper, pv.vals, FWith(ct, pv.h, o, lower, pv.vals))

\* FunctionModel1D.integrate(lower, upper): ps = tuple(self.parvals), f = self.f
IntegrateValue(ct, h, o, lower, upper) ==
    IntegrateWith(ct, o, lower, upper, GetParvals(ct, h, o))

RECURSIVE CallAt(_, _, _, _, _)

\* a vecf that binds the call input to the upper bound whatever was given
IntegrateKwUpper(ct, h, o, kw, xkw, x) ==
    IntegrateValue(ct, h, o, IF "lower" \in DOMAIN kw THEN kw["lower"] ELSE 0, x)

\* vecf(x) of lines 1186-1188: kwargs[xkw] = x; newf(**kwargs)
IntegrateKw(ct, h, o, kw, xkw, x) ==
    IntegrateValue(ct, h, o, IF xkw = "lower" THEN x ELSE kw["lower"],
                             IF xkw = "upper" THEN x ELSE kw["upper"])

\* FunctionModel1D.derivative(x, dx): (self(x+dx) - self(x)) / dx, a being the
\* outcome of self(x+dx)
DerivativeDiff(dx, a, b) ==
    IF b.exc # "none" THEN b
    ELSE [exc |-> "none", h |-> b.h, value |-> (a.value - b.value) \div dx]

DerivativeNext(ct, o, x, dx, depth, a) ==
    IF a.exc # "none" THEN a ELSE DerivativeDiff(dx, a, CallAt(ct, a.h, o, x, depth))

Derivative(ct, h, o, x, dx, depth) ==
    DerivativeNext(ct, o, x, dx, depth, CallAt(ct, h, o, x + dx, depth))

\* newf(**kwargs) of the installed callfunc, x being the value bound to xkw
MethodCall(ct, h, o, x, depth) ==
    IF h[o].calltype \in IntegrateTypes THEN IntegrateKw(ct, h, o, h[o].callkw, h[o].xkw, x)
    ELSE Derivative(ct, h, o, x, 1, depth)

\* callfunc (lines 1193-1243): self.parvals = pars (outcome sp), then the method
Redirected(ct, o, x, depth, sp) ==
    IF sp.exc # "none" THEN Raised(sp.exc, sp.h)
    ELSE ApplyY(sp.h[o].ytrans, MethodCall(ct, sp.h, o, ApplyTrans(sp.h[o].xtrans, x), depth))

\* self._filterfunc(x, *pars) with its value: lines 1157-1163 for type None
FilterValue(ct, h, o, x, pars, depth) ==
    IF h[o].calltype = "none"
    THEN ApplyY(h[o].ytrans, FWith(ct, h, o, ApplyTrans(h[o].xtrans, x), pars))
    ELSE Redirected(ct, o, x, depth, SetParvals(ct, h, o, pars))

CallAtWith(ct, o, x, depth, pv) ==
    IF pv.exc # "none" THEN Raised(pv.exc, pv.h)
    ELSE FilterValue(ct, pv.h, o, x, pv.vals, depth)

\* FunctionModel1D.__call__ at nesting depth: the interpreter raises
\* RuntimeError when the calls nest deeper than its limit
CallAt(ct, h, o, x, depth) ==
    IF depth >= MaxDepth THEN Raised("RuntimeError", h)
    ELSE CallAtWith(ct, o, x, depth + 1, GetParvals(ct, h, o))

\* model(x)
Call(ct, h, o, x) == CallAt(ct, h, o, x, 0)

Cls(cid) == [kind |-> "class", cls |-> cid]
Operators == {"+", "-", "*"}

\* CompositeModel1D(models, operation) for two and three model classes
EvalScenarios ==
    {CompositeInit(ClassTable, <<>>, "Composite", <<Cls("Lin"), Cls("Const")>>,
                   [kind |-> "char", op |-> op], EmptyDict, <<>>, TRUE).h : op \in Operators}
    \cup {CompositeInit(ClassTable, <<>>, "Composite", <<Cls("Const"), Cls("Const"), Cls("Const")>>,
                        [kind |-> "seq", ops |-> ops], EmptyDict, <<>>, TRUE).h :
             ops \in [1..2 -> Operators]}

InitEval ==
    /\ classes = ClassTable
    /\ heap \in EvalScenarios
    /\ registry = EmptyDict
    /\ fit = Idle
    /\ last = [op |-> "init"]

Called(x, r) ==
    /\ heap' = r.h
    /\ last' = [op |-> "call", exc |-> r.exc, x |-> x, value |-> r.value]

\* model(x)
CallOp(x) ==
    /\ fit = Idle
    /\ Called(x, Call(classes, heap, Subject, x))
    /\ UNCHANGED <<classes, registry, fit>>

NextEval ==
    \/ \E o \in 1..Len(heap) : \E name \in Range(Params(heap, o)) : \E val \in Vals :
          SetParam(o, name, val)
    \/ \E x \in Vals : CallOp(x)

SpecEval == InitEval /\ [][NextEval]_vars

\* the outputs of the sub-models of the composite, and its operators
SubValues(x) ==
    [i \in 1..Len(heap[Subject].models) |->
        LeafF(heap[heap[Subject].models[i]].cls, x,
              Parvals(classes, heap, heap[Subject].models[i]))]
SubOps == heap[Subject].ops

RECURSIVE ProductFrom(_, _, _)
ProductFrom(v, ops, k) ==
    IF k <= Len(ops) /\ ops[k] = "*" THEN v[k] * ProductFrom(v, ops, k + 1) ELSE v[k]

RECURSIVE SumOfProducts(_, _, _)
SumOfProducts(v, ops, k) ==
    IF k > Len(v) THEN 0
    ELSE SumOfProducts(v, ops, k + 1)
         + (IF k = 1 \/ ops[k - 1] = "+" THEN ProductFrom(v, ops, k)
            ELSE IF ops[k - 1] = "-" THEN 0 - ProductFrom(v, ops, k)
            ELSE 0)

ATOB == <<"a","t","o","b">>
PAANGLE == <<"p","a">>

\* FunctionModel2DScalarDeformedRadial.__init__(rmodel, atob, pa) for a radial
\* model already on the heap (lines 2046-2054, _fixPars 2072-2076)
DeformedInit(ct, h, cid, rid, atob, pa) ==
    SetAttr(ct,
            SetAttr(ct,
                    Append(h, [NewObj(cid, h[rid].pars \o <<ATOB, PAANGLE>>, EmptyDict)
                                  EXCEPT !.rmodel = rid]),
                    Len(h) + 1, ATOB, atob),
            Len(h) + 1, PAANGLE, pa)

\* len() of the arrays of each shape
ShapeLen(sh) == IF sh = "n" THEN 3 ELSE 4

\* lines 578-581 (and 608-611): the data given, or the stored fitteddata
DataOf(h, o, x, y) ==
    IF x = "None" \/ y = "None"
    THEN IF GetFitteddata(h, o) = <<>> THEN [exc |-> "ValueError", x |-> "None", y |-> "None"]
         ELSE [exc |-> "none", x |-> GetFitteddata(h, o)[1], y |-> GetFitteddata(h, o)[2]]
    ELSE [exc |-> "none", x |-> x, y |-> y]

\* self(x): __call__ evaluates self._filterfunc(arr, *self.parvals)
CallEffect(ct, h, o) == CallRmodel(ct, o, GetParvals(ct, h, o))

\* self(*args): __call__(self, x) takes exactly one argument besides self
CallArgs(ct, h, o, args) ==
    IF Len(args) # 1 THEN [exc |-> "TypeError", h |-> h] ELSE CallEffect(ct, h, o)

Chi2Fail(e, h) == [exc |-> e, h |-> h, dof |-> 0]

\* lines 590-593: two more evaluations of the model, then the triple
Chi2Return(h, o, d, e1, e2) ==
    IF e1.exc # "none" THEN Chi2Fail(e1.exc, e1.h)
    ELSE IF e2.exc # "none" THEN Chi2Fail(e2.exc, e2.h)
    ELSE [exc |-> "none", h |-> e2.h, dof |-> ShapeLen(d.y) - Len(Params(h, o)) - 1]

Chi2Values(ct, o, d, e1) == Chi2Return(e1.h, o, d, e1, CallEffect(ct, e1.h, o))

\* lines 583-588: e0 is the outcome of self(x, *self.parvals)
Chi2Checked(ct, o, d, e0) ==
    IF e0.exc # "none" THEN Chi2Fail(e0.exc, e0.h)
    ELSE IF d.x # d.y THEN Chi2Fail("ModelTypeError", e0.h)
    ELSE Chi2Values(ct, o, d, CallEffect(ct, e0.h, o))

Chi2Call(ct, o, d, pv) ==
    IF pv.exc # "none" THEN Chi2Fail(pv.exc, pv.h)
    ELSE Chi2Checked(ct, o, d, CallArgs(ct, pv.h, o, <<d.x>> \o pv.vals))

Chi2With(ct, h, o, d) ==
    IF d.exc # "none" THEN Chi2Fail(d.exc, h) ELSE Chi2Call(ct, o, d, GetParvals(ct, h, o))

\* FunctionModel.chi2Data(x, y)
Chi2Data(ct, h, o, x, y) == Chi2With(ct, h, o, DataOf(h, o, x, y))

\* the names bound when the body of bootstrapFits runs: its arguments, the
\* names it assigns, and the names the module defines that it uses
BootstrapNames == {"self", "x", "y", "n", "plothist", "xd", "yd", "d", "plt",
                   "nr", "nc", "i", "p", "np", "dict", "zip", "int", "len", "enumerate"}

\* the names the body reads after the data were accepted, in execution order
\* (lines 619-625)
BootstrapReads == <<"prefit", "self", "x", "y", "kwargs", "xi", "yi", "vs", "xd", "yd">>

\* lines 613-619: e0 is the outcome of self(x); then the first name that is
\* not bound raises NameError
BootstrapChecked(d, e0) ==
    IF e0.exc # "none" THEN [exc |-> e0.exc, h |-> e0.h]
    ELSE IF d.x # d.y THEN [exc |-> "ModelTypeError", h |-> e0.h]
    ELSE IF \E i \in 1..Len(BootstrapReads) : BootstrapReads[i] \notin BootstrapNames
    THEN [exc |-> "NameError", h |-> e0.h]
    ELSE [exc |-> "none", h |-> e0.h]

BootstrapWith(ct, h, o, d) ==
    IF d.exc # "none" THEN [exc |-> d.exc, h |-> h]
    ELSE BootstrapChecked(d, CallEffect(ct, h, o))

\* FunctionModel.bootstrapFits(x, y, n)
BootstrapFits(ct, h, o, x, y, n) == BootstrapWith(ct, h, o, DataOf(h, o, x, y))

\* the heaps a behaviour starts from
AnalysisScenarios ==
    { <<MetaCall("Const", ConstClass, <<>>, EmptyDict).obj>>,
      <<MetaCall("Poly", PolyClass, <<>>, (NPARAMS :> 0)).obj>>,
      DeformedInit(ClassTable, <<MetaCall("Const", ConstClass, <<>>, EmptyDict).obj>>,
                   "Deformed", 1, 1, 1),
      \* the radial model was fitted before it was wrapped
      DeformedInit(ClassTable,
                   <<[MetaCall("Const", ConstClass, <<>>, EmptyDict).obj
                         EXCEPT !.lastfit = <<<<1>>>>, !.fitteddata = <<"m", "m">>]>>,
                   "Deformed", 1, 1, 1) }

InitAnalysis ==
    /\ classes = ClassTable
    /\ heap \in AnalysisScenarios
    /\ registry = EmptyDict
    /\ fit = Idle
    /\ last = [op |-> "init"]

Chi2Done(x, y, r) ==
    /\ heap' = r.h
    /\ last' = [op |-> "chi2Data", exc |-> r.exc, dof |-> r.dof, x |-> x, y |-> y]

\* model.chi2Data(x, y)
Chi2DataOp(x, y) ==
    /\ fit = Idle
    /\ Chi2Done(x, y, Chi2Data(classes, heap, Subject, x, y))
    /\ UNCHANGED <<classes, registry, fit>>

BootstrapDone(x, y, r) ==
    /\ heap' = r.h
    /\ last' = [op |-> "bootstrapFits", exc |-> r.exc, x |-> x, y |-> y]

\* model.bootstrapFits(x, y, n)
BootstrapFitsOp(x, y, n) ==
    /\ fit = Idle
    /\ BootstrapDone(x, y, BootstrapFits(classes, heap, Subject, x, y, n))
    /\ UNCHANGED <<classes, registry, fit>>

\* the data handed to the analysis methods: both arrays, or none
DataInputs == {<<x, y>> : x, y \in Shapes} \cup {<<"None", "None">>}

NextAnalysis ==
    \/ \E name \in Range(Params(heap, Subject)) : \E val \in Vals : SetParam(Subject, name, val)
    \/ \E xs \in Shapes : \E fitf \in BOOLEAN :
          FitBegin(xs, xs, "None", "leastsq", <<>>, SUMSQ, fitf)
    \/ fit # Idle /\ \E v \in ResultVectors(Len(fit.ps)) : FitTrial(v)
    \/ fit # Idle /\ \E res \in ResultVectors(Len(fit.ps)) : \E updatepars, savedata \in BOOLEAN :
          /\ res # <<>>
          /\ FitEnd(res, updatepars, savedata)
    \/ \E d \in DataInputs : Chi2DataOp(d[1], d[2])
    \/ \E d \in DataInputs : BootstrapFitsOp(d[1], d[2], MaxVal)

SpecAnalysis == InitAnalysis /\ [][NextAnalysis]_vars

\* C12: after a successful fitData on any FunctionModel (1-D, composite or a
\* 2-D wrapper), reading model.lastfit gives the optimizer's result; with
\* savedata=True reading model.fitteddata gives the (x, y) that was fitted,
\* and with savedata=False model.fitteddata reads as it did before the call.
C12_FitRecordsResult ==
    [][FitReturns =>
          /\ GetLastfit(classes, heap', Subject) = <<last'.ret>>
          /\ IF last'.savedata
             THEN GetFitteddata(heap', Subject) = <<fit.xs, fit.ys>>
             ELSE GetFitteddata(heap', Subject) = GetFitteddata(heap, Subject)]_vars

\* the data a call names: the arrays given, or the stored fitteddata
DataMatches(h, x, y) ==
    /\ DataOf(h, Subject, x, y).exc = "none"
    /\ DataOf(h, Subject, x, y).x = DataOf(h, Subject, x, y).y

\* C16: chi2Data, called with data (explicit x, y or the stored fitteddata)
\* whose shape matches the model output, returns without raising the triple
\* computed with dof = n - m - 1 (n data points, m parameters), for models
\* with any number of parameters.
C16_Chi2Data ==
    (last.op = "chi2Data" /\ DataMatches(heap, last.x, last.y)) =>
        /\ last.exc = "none"
        /\ last.dof = ShapeLen(DataOf(heap, Subject, last.x, last.y).y)
                         - Len(Params(heap, Subject)) - 1

\* C17: bootstrapFits, given valid data (explicit or stored), completes
\* without raising, and the parameter values after the call are those before.
C17_BootstrapFits ==
    [][(last'.op = "bootstrapFits" /\ DataMatches(heap, last'.x, last'.y)) =>
          /\ last'.exc = "none"
          /\ Parvals(classes, heap', Subject) = Parvals(classes, heap, Subject)]_vars


(***************************************************************************)
(* SpecCall: call redirection.  A 1-D model (a plain one, an               *)
(* auto-parameter one, or a composite) is redirected with setCall, called, *)
(* integrated directly and asked for getCall, while its parameters are     *)
(* assigned.                                                               *)
(***************************************************************************)
CallScenarios ==
    { <<NewObj("Lin", LinClass.pars, EmptyDict)>>,
      <<MetaCall("Const", ConstClass, <<>>, EmptyDict).obj>>,
      CompositeInit(ClassTable, <<>>, "Composite", <<Cls("Const"), Cls("Const")>>,
                    PlusOp, EmptyDict, <<>>, TRUE).h }

InitCall ==
    /\ classes = ClassTable
    /\ heap \in CallScenarios
    /\ registry = EmptyDict
    /\ fit = Idle
    /\ last = [op |-> "init"]

SetCallArgs(type, xtrans, ytrans, kwargs) ==
    [type |-> type, xtrans |-> xtrans, ytrans |-> ytrans, kwargs |-> kwargs]

\* the bounds given to setCall('integrate'): none, lower=0, upper=MaxVal, both
BoundInputs == {EmptyDict, ("lower" :> 0), ("upper" :> MaxVal), ("lower" :> 0) @@ ("upper" :> MaxVal)}

\* the setCall calls made: each type, transforms of either kind on either
\* side, the integral with each choice of bounds, and calls setCall rejects
SetCallInputs ==
    {SetCallArgs("none", "None", "None", EmptyDict),
     SetCallArgs("none", "pow", "neg", EmptyDict),
     SetCallArgs("none", "neg", "None", EmptyDict),
     SetCallArgs("derivative", "None", "None", EmptyDict),
     SetCallArgs("integrate", "neg", "neg", EmptyDict),
     SetCallArgs("nosuch", "None", "None", EmptyDict),
     SetCallArgs("none", "sqrt", "None", EmptyDict),
     SetCallArgs("none", "None", "sqrt", EmptyDict)}
    \cup {SetCallArgs("integrate", "None", "None", kw) : kw \in BoundInputs}

Integrated(lower, upper, r) ==
    /\ heap' = r.h
    /\ last' = [op |-> "integrate", exc |-> r.exc, lower |-> lower, upper |-> upper,
                value |-> r.value]

\* model.integrate(lower, upper)
IntegrateOp(lower, upper) ==
    /\ fit = Idle
    /\ Integrated(lower, upper, IntegrateValue(classes, heap, Subject, lower, upper))
    /\ UNCHANGED <<classes, registry, fit>>

\* model.getCall()
GetCallOp ==
    /\ fit = Idle
    /\ last' = [op |-> "getCall", exc |-> "none", res |-> GetCall(heap, Subject)]
    /\ UNCHANGED <<classes, heap, registry, fit>>

NextCall ==
    \/ \E name \in Range(Params(heap, Subject)) : \E val \in Vals : SetParam(Subject, name, val)
    \/ \E c \in SetCallInputs : SetCallOp(c.type, c.xtrans, c.ytrans, c.kwargs)
    \/ \E x \in Vals : CallOp(x)
    \/ \E upper \in Vals : IntegrateOp(0, upper)
    \/ GetCallOp

SpecCall == InitCall /\ [][NextCall]_vars

\* what setCall(type, xtrans, ytrans, **kwargs) asks a call at x to compute,
\* from the parameter values of the heap h
PlainIntegral(h, lower, upper) ==
    ((upper - lower) * (FValue(classes, h, Subject, lower) + FValue(classes, h, Subject, upper)))
        \div 2

AskedValue(c, h, x) ==
    IF c.type = "none"
    THEN ApplyTrans(c.ytrans, FValue(classes, h, Subject, ApplyTrans(c.xtrans, x)))
    ELSE ApplyTrans(c.ytrans,
                    IF "upper" \in DOMAIN c.kwargs
                    THEN PlainIntegral(h, ApplyTrans(c.xtrans, x), c.kwargs["upper"])
                    ELSE PlainIntegral(h, 0, ApplyTrans(c.xtrans, x)))

\* the outcome r of a call at x is what c asked for, with the parameter
\* values the call read
AsAsked(c, x, r) == r.exc = "none" /\ r.value = AskedValue(c, r.h, x)

\* what the installed _filterfunc closes over
Installed(h) ==
    <<h[Subject].calltype, h[Subject].xtrans, h[Subject].ytrans, h[Subject].callkw,
      h[Subject].xkw, h[Subject].filterfunctype>>

SetCallSucceeds == last'.op = "setCall" /\ last'.exc = "none"

C14_DerivativeCall ==
    (/\ last.op = "call"
     /\ GetCall(heap, Subject) = <<"derivative", "None", "None">>) =>
        /\ last.exc = "none"
        /\ last.value = FValue(classes, heap, Subject, last.x + 1)
                           - FValue(classes, heap, Subject, last.x)

\* the step is a call of a model redirected to the integral without transforms
IntegralCall ==
    /\ last'.op = "call"
    /\ GetCall(heap, Subject) = <<"integrate", "None", "None">>

\* C15: after setCall('integrate', lower=0), or setCall('integrate') with
\* neither bound, evaluating the model at u returns what integrate(0, u)
\* returns when called directly with the same parameter values; after
\* setCall('integrate', upper=b) evaluating at u returns integrate(u, b).
C15_CallModeIntegral ==
    [][/\ (SetCallSucceeds /\ last'.type = "integrate") =>
             heap'[Subject].callkw = IF last'.kwargs = EmptyDict THEN ("lower" :> 0)
                                     ELSE last'.kwargs
       /\ (IntegralCall /\ "lower" \in DOMAIN heap[Subject].callkw) =>
             /\ last'.exc = "none"
             /\ last'.value = IntegrateValue(classes, heap, Subject,
                                             heap[Subject].callkw["lower"], last'.x).value
       /\ (IntegralCall /\ "upper" \in DOMAIN heap[Subject].callkw) =>
             /\ last'.exc = "none"
             /\ last'.value = IntegrateValue(classes, heap, Subject,
                                             last'.x, heap[Subject].callkw["upper"]).value]_vars

\* a model redirected with setCall('integrate', upper=MaxVal) was called at 1
\* and returned the integral from 1 to MaxVal, which is not the one from 0 to 1
C15_Witness ==
    /\ last.op = "call" /\ last.exc = "none" /\ last.x = 1
    /\ GetCall(heap, Subject) = <<"integrate", "None", "None">>
    /\ heap[Subject].callkw = ("upper" :> MaxVal)
    /\ last.value = PlainIntegral(heap, 1, MaxVal)
    /\ last.value # PlainIntegral(heap, 0, 1)


(***************************************************************************)
(* SpecCompose: construction of a CompositeModel1D from instances and      *)
(* classes with a parnames dictionary, then reads and writes of parameters *)
(* through the composite and directly on its sub-models.                   *)
(***************************************************************************)
PAB == <<"a", "b">>
A0 == PA \o Str(0)
B0 == PB \o Str(0)
A1 == PA \o Str(1)
AB1 == PAB \o Str(1)
QKEY == <<"q">>

\* a FunctionModel1D subclass whose only parameter is named 'ab'
AbClass ==
    [kind |-> "plain", descr |-> EmptyDict, openarity |-> FALSE, pars |-> <<PAB>>,
     customfit |-> FALSE, defaultparval |-> 1]

ComposeClasses ==
    [cid \in DOMAIN ClassTable \cup {"Ab"} |-> IF cid = "Ab" THEN AbClass ELSE ClassTable[cid]]

InitCompose ==
    /\ classes = ComposeClasses
    /\ heap = <<NewObj("Lin", LinClass.pars, EmptyDict), NewObj("Ab", AbClass.pars, EmptyDict)>>
    /\ registry = EmptyDict
    /\ fit = Idle
    /\ last = [op |-> "init"]

\* the models argument: two instances, an instance and a class, the same
\* instance twice
ModelsInputs == {<<Inst(1), Inst(2)>>, <<Inst(1), Cls("Const")>>, <<Inst(1), Inst(1)>>}

\* the parnames argument
ParnamesInputs ==
    {EmptyDict, (A0 :> ZKEY), (A1 :> ZKEY), (A0 :> B0), (B0 :> AB1), (A0 :> PA),
     (QKEY :> ZKEY), (A0 :> ZKEY) @@ (B0 :> ZKEY), (A0 :> B0) @@ (B0 :> ZKEY)}

Constructed(models, operation, parnames, porder, autoshorten, r) ==
    /\ heap' = r.h
    /\ last' = [op |-> "construct", exc |-> r.exc, models |-> models, operation |-> operation,
                parnames |-> parnames, porder |-> porder, autoshorten |-> autoshorten]

\* CompositeModel1D(models, operation, parnames, autoshorten); porder is the
\* order in which parnames is iterated
ConstructOp(models, operation, parnames, porder, autoshorten) ==
    /\ Len(heap) = 2
    /\ Constructed(models, operation, parnames, porder, autoshorten,
                   CompositeInit(classes, heap, "Composite", models, operation, parnames, porder,
                                 autoshorten))
    /\ UNCHANGED <<classes, registry, fit>>

\* the operation argument: a sequence of one or two operators, and the
\* expression strings 'm+m' and 'm+m*m'
OperationInputs ==
    {[kind |-> "seq", ops |-> <<"+">>], [kind |-> "seq", ops |-> <<"+", "*">>],
     [kind |-> "expr", expr |-> <<"m", "+", "m">>],
     [kind |-> "expr", expr |-> <<"m", "+", "m", "*", "m">>]}

\* setattr(o, name, val)
AssignOp(o, name, val) ==
    /\ Len(heap) > 2
    /\ heap' = SetAttr(classes, heap, o, name, val)
    /\ last' = [op |-> "setattr", exc |-> "none", o |-> o, name |-> name, val |-> val]
    /\ UNCHANGED <<classes, registry, fit>>

Read(name, r) ==
    /\ heap' = r.h
    /\ last' = [op |-> "getattr", exc |-> r.exc, name |-> name, v |-> r.v]

\* getattr(composite, name)
ReadOp(name) ==
    /\ Len(heap) > 2
    /\ Read(name, GetAttr(classes, heap, Subject, name))
    /\ UNCHANGED <<classes, registry, fit>>

NextCompose ==
    \/ \E models \in ModelsInputs : \E parnames \in ParnamesInputs :
       \E porder \in Perms(DOMAIN parnames) : \E autoshorten \in BOOLEAN :
          ConstructOp(models, PlusOp, parnames, porder, autoshorten)
    \/ \E models \in ModelsInputs : \E operation \in OperationInputs :
          ConstructOp(models, operation, EmptyDict, <<>>, TRUE)
    \/ \E o \in 1..Len(heap) : \E name \in Range(Params(heap, o)) : \E val \in Vals :
          AssignOp(o, name, val)
    \/ \E name \in Range(Params(heap, Subject)) : ReadOp(name)

SpecCompose == InitCompose /\ [][NextCompose]_vars

\* the parameter names of the item m of a models argument
ParsOfModel(m) == IF m.kind = "inst" THEN heap[m.id].pars ELSE classes[m.cls].pars

\* the (position, parameter) pairs of a models argument in order, as
\* records with the suffixed name
RECURSIVE Slots(_, _)
Slots(models, i) ==
    IF i >= Len(models) THEN <<>>
    ELSE [j \in 1..Len(ParsOfModel(models[i + 1])) |->
             [i |-> i, p |-> ParsOfModel(models[i + 1])[j],
              name |-> ParsOfModel(models[i + 1])[j] \o Str(i)]]
         \o Slots(models, i + 1)

\* the number of sub-models of a models argument that have a parameter p
Occurrences(models, p) ==
    Cardinality({i \in 1..Len(models) : InSeq(p, ParsOfModel(models[i]))})

ConstructSucceeds == last'.op = "construct" /\ last'.exc = "none"

\* C18: the k-th parameter of a constructed composite, when its suffixed name
\* <p><i> was not aliased, is named <p><i>, or with autoshorten the bare p
\* exactly when p is a parameter of only one sub-model.
C18_CompositeNaming ==
    [][ConstructSucceeds =>
          LET sl == Slots(last'.models, 0)
              pars == heap'[Len(heap')].pars
          IN /\ Len(pars) = Len(sl)
             /\ \A k \in 1..Len(sl) :
                   sl[k].name \notin DOMAIN last'.parnames =>
                      pars[k] = IF last'.autoshorten /\ Occurrences(last'.models, sl[k].p) = 1
                                THEN sl[k].p
                                ELSE sl[k].name]_vars

\* the suffixed names of a models argument
Original(models) == {Slots(models, 0)[k].name : k \in 1..Len(Slots(models, 0))}

Targets(parnames) == {parnames[k] : k \in DOMAIN parnames}

\* the one key of a dictionary with one key
OnlyKey(d) == CHOOSE k \in DOMAIN d : TRUE

Composites == {o \in 1..Len(heap) : classes[heap[o].cls].kind = "composite"}

\* the sub-model and its parameter that the name n of the composite o is
\* routed to
SubOf(h, o, n) == h[o].models[h[o].argmap[n][1] + 1]
ParOf(h, o, n) == h[o].argmap[n][2]

SameRead(r1, r2) == r1.v = r2.v /\ r1.exc = r2.exc

\* every name of params is routed to a parameter of a sub-model
Routed(h, o) ==
    \A n \in Range(h[o].pars) :
       /\ n \in DOMAIN h[o].argmap
       /\ h[o].argmap[n][1] \in 0..(Len(h[o].models) - 1)
       /\ InSeq(ParOf(h, o, n), h[SubOf(h, o, n)].pars)

\* C20: in every constructed composite every name n of params is a key of
\* the argmap with a valid sub-model index i and a parameter p of sub-model
\* i; a read of n on the composite gives sub-model i's value of p; a write of
\* n on the composite changes sub-model i's p, and a write of p on the
\* sub-model is seen through every name routed to it.
C20_Routing ==
    [][/\ \A o \in Composites : Routed(heap, o)
       /\ last'.op = "getattr" =>
             SameRead(last', GetAttr(classes, heap, SubOf(heap, Subject, last'.name),
                                     ParOf(heap, Subject, last'.name)))
       /\ (last'.op = "setattr" /\ last'.o \in Composites) =>
             heap'[SubOf(heap, last'.o, last'.name)].attrs[ParOf(heap, last'.o, last'.name)]
                = last'.val
       /\ (last'.op = "setattr" /\ last'.o \notin Composites) =>
             \A c \in Composites : \A n \in Range(heap[c].pars) :
                (SubOf(heap, c, n) = last'.o /\ ParOf(heap, c, n) = last'.name) =>
                   GetAttr(classes, heap', c, n).v = last'.val]_vars

\* the parameter c was written on the sub-model made from the class, and the
\* composite reads the written value under its name c
C20_Witness ==
    /\ last.op = "setattr" /\ last.o = 3 /\ last.name = PC /\ last.val = MaxVal
    /\ Composites = {4}
    /\ heap[4].pars = <<PA, PB, PC>>
    /\ heap[4].argmap[PC] = <<1, PC>>
    /\ GetAttr(classes, heap, 4, PC).v = MaxVal

(***************************************************************************)
(* SpecFixed: CompositeModel1D.fitDataFixed.  A composite with suffixed,   *)
(* shortened or aliased parameter names is fitted with the parameters of   *)
(* some of its sub-models held fixed or left free.                         *)
(***************************************************************************)
\* [p+str(i) for i in mods for p in self._models[i].params]
RECURSIVE ModNames(_, _, _)
ModNames(h, o, mods) ==
    IF mods = <<>> THEN <<>>
    ELSE [j \in 1..Len(h[h[o].models[Head(mods) + 1]].pars) |->
             h[h[o].models[Head(mods) + 1]].pars[j] \o Str(Head(mods))]
         \o ModNames(h, o, Tail(mods))

\* fps.remove(name) for each name
RECURSIVE RemoveNames(_, _)
RemoveNames(fps, names) ==
    IF names = <<>> THEN [exc |-> "none", fps |-> fps]
    ELSE IF ~InSeq(Head(names), fps) THEN [exc |-> "ValueError", fps |-> fps]
    ELSE RemoveNames(Remove(fps, Head(names)), Tail(names))

\* lines 1437-1453: the list fps from the fixedmods or freemods keyword
FixedNames(h, o, kw) ==
    IF "fixedmods" \in DOMAIN kw /\ "freemods" \in DOMAIN kw THEN [exc |-> "TypeError", fps |-> <<>>]
    ELSE IF "fixedmods" \in DOMAIN kw
         THEN [exc |-> "none", fps |-> ModNames(h, o, kw["fixedmods"])]
    ELSE IF "freemods" \in DOMAIN kw
         THEN RemoveNames(h[o].pars, ModNames(h, o, kw["freemods"]))
    ELSE [exc |-> "TypeError", fps |-> <<>>]

\* lines 1456-1460: fitData(x, y, fixedpars=fps)
FitDataFixedWith(ct, h, o, n) ==
    IF n.exc # "none" THEN FitFail(n.exc, h)
    ELSE FitStart(ct, h, o, FitCall("n", "n", "None", "None", n.fps, SUMSQ, FALSE))

FitDataFixed(ct, h, o, kw) == FitDataFixedWith(ct, h, o, FixedNames(h, o, kw))

\* composites of a two-parameter and a one-parameter model whose names are
\* shortened, suffixed, or aliased, and one of two models of the same class
FixedScenarios ==
    {CompositeInit(ClassTable, <<>>, "Composite", <<Cls("Lin"), Cls("Const")>>,
                   PlusOp, EmptyDict, <<>>, autoshorten).h : autoshorten \in BOOLEAN}
    \cup {CompositeInit(ClassTable, <<>>, "Composite", <<Cls("Lin"), Cls("Const")>>,
                        PlusOp, (PA \o Str(0)) :> ZKEY, <<PA \o Str(0)>>, FALSE).h,
          CompositeInit(ClassTable, <<>>, "Composite", <<Cls("Const"), Cls("Const")>>,
                        PlusOp, EmptyDict, <<>>, TRUE).h}

InitFixed ==
    /\ classes = ClassTable
    /\ heap \in FixedScenarios
    /\ registry = EmptyDict
    /\ fit = Idle
    /\ last = [op |-> "init"]

\* the fixedmods / freemods keywords given
ModsInputs ==
    {EmptyDict, ("fixedmods" :> <<0>>) @@ ("freemods" :> <<1>>)}
    \cup {k :> mods : k \in {"fixedmods", "freemods"}, mods \in {<<>>, <<0>>, <<1>>, <<1, 0>>}}

StartedFixed(kw, r) ==
    /\ heap' = r.h
    /\ fit' = r.fit
    /\ last' = [op |-> "fitDataFixed", exc |-> r.exc, kw |-> kw]

\* model.fitDataFixed(x, y, fixedmods=..., freemods=...) up to the optimizer
FitDataFixedOp(kw) ==
    /\ fit = Idle
    /\ StartedFixed(kw, FitDataFixed(classes, heap, Subject, kw))
    /\ UNCHANGED <<classes, registry>>

NextFixed ==
    \/ \E name \in Range(Params(heap, Subject)) : \E val \in Vals : SetParam(Subject, name, val)
    \/ \E kw \in ModsInputs : FitDataFixedOp(kw)
    \/ FitRaise
    \/ fit # Idle /\ \E res \in ResultVectors(Len(fit.ps)) :
          /\ res # <<>>
          /\ FitEnd(res, TRUE, FALSE)

SpecFixed == InitFixed /\ [][NextFixed]_vars

\* the names of params of the composite that are routed to a sub-model whose
\* index is in the set S
RoutedTo(h, o, S) == {n \in Range(h[o].pars) : h[o].argmap[n][1] \in S}

Indices(kw, k) == {kw[k][i] : i \in 1..Len(kw[k])}

SubIndices(h, o) == 0..(Len(h[o].models) - 1)

\* the step is a fitDataFixed call given one of the two keywords
FixedCall == last'.op = "fitDataFixed" /\ Cardinality(DOMAIN last'.kw) = 1

\* the fit was entered with exactly the names of the set N held fixed
HeldFixed(N) ==
    /\ last'.exc = "none"
    /\ fit' # Idle
    /\ Range(fit'.fixedpars) = N
    /\ Range(fit'.ps) = Range(heap[Subject].pars) \ N

\* C21: fitDataFixed with fixedmods=S hands fitData exactly the names of
\* composite.params routed to the sub-models in S, with freemods=S exactly
\* those routed to the sub-models not in S, and the fit is entered with those
\* parameters fixed and the others free.
C21_FitDataFixed ==
    [][/\ (FixedCall /\ "fixedmods" \in DOMAIN last'.kw) =>
             HeldFixed(RoutedTo(heap, Subject, Indices(last'.kw, "fixedmods")))
       /\ (FixedCall /\ "freemods" \in DOMAIN last'.kw) =>
             HeldFixed(RoutedTo(heap, Subject,
                                SubIndices(heap, Subject) \ Indices(last'.kw, "freemods")))]_vars

(***************************************************************************)
(* SpecFilter: the filter list of a CompositeModel1D.  Filters are added   *)
(* and cleared, parameters assigned and the composite evaluated.           *)
(***************************************************************************)
LowerBound == 1

FilterScenarios ==
    {CompositeInit(ClassTable, <<>>, "Composite", <<Cls("Const"), Cls("Const")>>,
                   [kind |-> "char", op |-> op], EmptyDict, <<>>, TRUE).h : op \in {"+", "-"}}

InitFilter ==
    /\ classes = ClassTable
    /\ heap \in FilterScenarios
    /\ registry = EmptyDict
    /\ fit = Idle
    /\ last = [op |-> "init"]

\* the arguments of addFilter: two functions and a number
FilterInputs == {Filter("neg", 0), Filter("dbl", 0), Filter("int", 0)}

\* the number of filters held
NFilters(h, o) == IF h[o].filters = <<>> THEN 0 ELSE Len(h[o].filters[1])

FilterAdded(filter, r) ==
    /\ heap' = r.h
    /\ last' = [op |-> "addFilter", exc |-> r.exc, filter |-> filter]

\* composite.addFilter(filter)
AddFilterOp(filter) ==
    /\ NFilters(heap, Subject) < MaxFilters
    /\ FilterAdded(filter, AddFilter(heap, Subject, filter))
    /\ UNCHANGED <<classes, registry, fit>>

\* composite.addLowerBoundFilter(bound)
AddLowerBoundFilterOp(bound) ==
    /\ NFilters(heap, Subject) < MaxFilters
    /\ FilterAdded(Filter("bound", bound), AddLowerBoundFilter(heap, Subject, bound))
    /\ UNCHANGED <<classes, registry, fit>>

\* composite.clearFilters()
ClearFiltersOp ==
    /\ Done("clearFilters", ClearFilters(heap, Subject))
    /\ UNCHANGED <<classes, registry, fit>>

NextFilter ==
    \/ \E name \in Range(Params(heap, Subject)) : \E val \in Vals : SetParam(Subject, name, val)
    \/ \E filter \in FilterInputs : AddFilterOp(filter)
    \/ AddLowerBoundFilterOp(LowerBound)
    \/ ClearFiltersOp
    \/ \E x \in Vals : CallOp(x)

SpecFilter == InitFilter /\ [][NextFilter]_vars

\* the folded result eval(self._opstr) at x
Folded(h, x) ==
    EvalOpstr([i \in 1..Len(h[Subject].models) |-> FValue(classes, h, h[Subject].models[i], x)],
              h[Subject].ops)

\* C22: a composite evaluates to the folded result with the filters added
\* since the last clearFilters (or since construction) applied once each in
\* the order they were added: none at first, an accepted addFilter(f) makes
\* the composite evaluate to f of what it evaluated to before, clearFilters
\* makes it evaluate to the folded result, addFilter of a non-callable raises
\* ValueError and changes no value, and no other operation changes the list.
C22_FilterChain ==
    [][/\ last.op = "init" => \A x \in Vals : FValue(classes, heap, Subject, x) = Folded(heap, x)
       /\ (last'.op = "addFilter" /\ Callable(last'.filter)) =>
             /\ last'.exc = "none"
             /\ \A x \in Vals : FValue(classes, heap', Subject, x)
                                   = ApplyFilter(last'.filter, FValue(classes, heap, Subject, x))
       /\ (last'.op = "addFilter" /\ ~Callable(last'.filter)) =>
             /\ last'.exc = "ValueError"
             /\ \A x \in Vals : FValue(classes, heap', Subject, x)
                                   = FValue(classes, heap, Subject, x)
       /\ last'.op = "clearFilters" =>
             \A x \in Vals : FValue(classes, heap', Subject, x) = Folded(heap', x)
       /\ (last'.op = "call" /\ last'.exc = "none") =>
             last'.value = FValue(classes, heap', Subject, last'.x)
       /\ last'.op \in {"call", "setattr"} =>
             NFilters(heap', Subject) = NFilters(heap, Subject)
                /\ \A x \in Vals :
                      ApplyFilters(heap'[Subject].filters, x) = ApplyFilters(heap[Subject].filters, x)]_vars

\* a composite with the filters negation then lower bound was called and gave
\* the bound, which the filters in the other order would not give
C22_Witness ==
    /\ last.op = "call" /\ last.exc = "none"
    /\ heap[Subject].filters = <<<<Filter("neg", 0), Filter("bound", LowerBound)>>>>
    /\ last.value = LowerBound
    /\ last.value # 0 - ApplyFilter(Filter("bound", LowerBound), Folded(heap, last.x))

(***************************************************************************)
(* SpecTransform: InputCoordinateTransformer on two instances of           *)
(* FunctionModel2DScalar.  The heap holds the dictionaries as objects of   *)
(* their own, since the class-level table, the per-instance tables and     *)
(* their nested per-system tables may be shared.                           *)
(***************************************************************************)
\* a function by what inspect.getargspec reports of it: the number of
\* positional arguments, the number of defaults (-1 when defaults is None),
\* whether it takes **kwargs; isfunc is FALSE for an object getargspec rejects
Func(name, nargs, ndefaults, varkw, isfunc) ==
    [name |-> name, nargs |-> nargs, ndefaults |-> ndefaults, varkw |-> varkw, isfunc |-> isfunc]

Dict(items) == [kind |-> "dict", items |-> items, table |-> 0]
Instance2D == [kind |-> "inst", items |-> EmptyDict, table |-> 0]

CARTESIAN_TO_POLAR == Func("cartesian_to_polar", 1, 0 - 1, FALSE, TRUE)
POLAR_TO_CARTESIAN == Func("polar_to_cartesian", 1, 0 - 1, FALSE, TRUE)

\* FunctionModel2DScalar (lines 1634-1637): _inputtransforms is the object 1
Scalar2DClass == [inputtransforms |-> 1, incoordsys |-> "cartesian", fcoordsys |-> "cartesian"]

\* the class-level table, its two nested tables, and two instances
TransformHeap ==
    <<Dict(("cartesian" :> 2) @@ ("polar" :> 3)),
      Dict("polar" :> CARTESIAN_TO_POLAR),
      Dict("cartesian" :> POLAR_TO_CARTESIAN),
      Instance2D, Instance2D>>

Instances2D == {4, 5}

InitTransform ==
    /\ classes = [Scalar2D |-> Scalar2DClass]
    /\ heap = TransformHeap
    /\ registry = EmptyDict
    /\ fit = Idle
    /\ last = [op |-> "init"]

\* self._inputtransforms: the instance attribute, else the class attribute
TableOf(ct, h, o) == IF h[o].table # 0 THEN h[o].table ELSE ct.Scalar2D.inputtransforms

\* lines 1610-1615: len(defaults) raises TypeError when defaults is None
ArgspecFails(func) ==
    \/ ~func.isfunc
    \/ func.ndefaults < 0
    \/ func.nargs - 1 > func.ndefaults
    \/ func.varkw

\* dd[input][output] = func for a defaultdict dd held at t: a missing input
\* gets a new dict
StoreIn(h, t, input, output, func) ==
    IF input \in DOMAIN h[t].items
    THEN [h EXCEPT ![h[t].items[input]].items = SetKey(@, output, func)]
    ELSE Append([h EXCEPT ![t].items = SetKey(@, input, Len(h) + 1)], Dict(output :> func))

\* lines 1618-1621: dd = defaultdict(dict); dd.update(self._inputtransforms);
\* self._inputtransforms = dd
OwnTable(ct, h, o) ==
    Append([h EXCEPT ![o].table = Len(h) + 1], Dict(h[TableOf(ct, h, o)].items))

\* InputCoordinateTransformer.addTransform (lines 1600-1623): dd is bound only
\* when the instance had no table of its own
AddTransform(ct, h, o, input, output, func) ==
    IF ArgspecFails(func) THEN [exc |-> "TypeError", h |-> h]
    ELSE IF h[o].table # 0 THEN [exc |-> "UnboundLocalError", h |-> h]
    ELSE [exc |-> "none",
          h |-> StoreIn(OwnTable(ct, h, o), Len(h) + 1, input, output, func)]

\* self._inputtransforms[incoordsys]: a defaultdict makes the missing entry
Nested(h, t, sys) ==
    IF sys \in DOMAIN h[t].items THEN [exc |-> "none", h |-> h, id |-> h[t].items[sys]]
    ELSE IF t = 1 THEN [exc |-> "KeyError", h |-> h, id |-> 0]
    ELSE [exc |-> "none", h |-> Append([h EXCEPT ![t].items = SetKey(@, sys, Len(h) + 1)],
                                       Dict(EmptyDict)),
          id |-> Len(h) + 1]

NoFunc == Func("none", 0, 0, FALSE, FALSE)
SameFunc == Func("identity", 1, 0 - 1, FALSE, TRUE)

TransformWith(n, outsys) ==
    IF n.exc # "none" THEN [exc |-> n.exc, h |-> n.h, func |-> NoFunc]
    ELSE IF outsys \notin DOMAIN n.h[n.id].items THEN [exc |-> "KeyError", h |-> n.h, func |-> NoFunc]
    ELSE [exc |-> "none", h |-> n.h, func |-> n.h[n.id].items[outsys]]

\* InputCoordinateTransformer.transformCoordinates (lines 1584-1598): the
\* function applied to x (SameFunc when x is returned as it is)
TransformCoordinates(ct, h, o, insys, outsys) ==
    IF insys = outsys THEN [exc |-> "none", h |-> h, func |-> SameFunc]
    ELSE TransformWith(Nested(h, TableOf(ct, h, o), insys), outsys)

Systems == {"cartesian", "polar", "log"}

\* the functions given: one positional argument and no default; one
\* positional argument and an optional one; two positional arguments; one
\* that takes **kwargs; an object that is not a function
FuncInputs ==
    {Func("one", 1, 0 - 1, FALSE, TRUE), Func("opt", 2, 1, FALSE, TRUE),
     Func("two", 2, 0 - 1, FALSE, TRUE), Func("kw", 2, 1, TRUE, TRUE),
     Func("obj", 0, 0 - 1, FALSE, FALSE)}

Added(o, input, output, func, r) ==
    /\ heap' = r.h
    /\ last' = [op |-> "addTransform", exc |-> r.exc, o |-> o, input |-> input,
                output |-> output, func |-> func]

\* model.addTransform(input, output, func)
AddTransformOp(o, input, output, func) ==
    /\ Added(o, input, output, func, AddTransform(classes, heap, o, input, output, func))
    /\ UNCHANGED <<classes, registry, fit>>

Transformed(o, insys, outsys, r) ==
    /\ heap' = r.h
    /\ last' = [op |-> "transformCoordinates", exc |-> r.exc, o |-> o, insys |-> insys,
                outsys |-> outsys, func |-> r.func]

\* model.transformCoordinates(x, incoordsys, outcoordsys)
TransformOp(o, insys, outsys) ==
    /\ Transformed(o, insys, outsys, TransformCoordinates(classes, heap, o, insys, outsys))
    /\ UNCHANGED <<classes, registry, fit>>

NextTransform ==
    \/ \E o \in Instances2D : \E input \in {"cartesian", "log"} : \E output \in {"polar", "log"} :
       \E func \in FuncInputs : AddTransformOp(o, input, output, func)
    \/ \E o \in Instances2D : \E insys \in {"cartesian", "log"} : \E outsys \in {"polar", "log"} :
          TransformOp(o, insys, outsys)

SpecTransform == InitTransform /\ [][NextTransform]_vars

\* a callable that takes exactly one positional argument and has no defaults
OneArgument(func) == func.isfunc /\ func.nargs = 1 /\ func.ndefaults < 0 /\ ~func.varkw

\* C23: addTransform(input, output, func) with func a callable of exactly one
\* positional argument and no defaults succeeds, whether or not it is the
\* first addTransform on the instance, and transformCoordinates from input to
\* output then applies func.
C23_AddTransform ==
    [][(last'.op = "addTransform" /\ OneArgument(last'.func)) =>
          /\ last'.exc = "none"
          /\ TransformCoordinates(classes, heap', last'.o, last'.input, last'.output).func
                = last'.func]_vars

\* the transforms a lookup through the table t sees, per source system
View(h, t) == [s \in DOMAIN h[t].items |-> h[h[t].items[s]].items]

\* C29: addTransform on one instance changes neither the class-level table
\* of transforms, nested per-system tables included, nor the transforms seen
\* by any other instance.
C29_CopyOnFirstWrite ==
    [][last'.op = "addTransform" =>
          /\ View(heap', classes.Scalar2D.inputtransforms)
                = View(heap, classes.Scalar2D.inputtransforms)
          /\ \A o \in Instances2D \ {last'.o} :
                View(heap', TableOf(classes, heap', o)) = View(heap, TableOf(classes, heap, o))]_vars

(***************************************************************************)
(* SpecList: list_models on a registry that is being filled.               *)
(***************************************************************************)
KKEY == <<"k">>

\* the names asked of list_models: the keys of the two classes, a key given
\* at registration, and one that is never registered
ListNames == {<<"g">>, <<"h">>, KKEY, ZKEY}

\* None, or a sequence of up to MaxNames names
NamesInputs == {<<>>} \cup {<<names>> : names \in SeqsUpTo(ListNames, MaxNames)}

Listed(include, exclude, baseclass, r) ==
    last' = [op |-> "list_models", exc |-> r.exc, res |-> r.res, include |-> include,
             exclude |-> exclude, baseclass |-> baseclass]

\* list_models(include, exclude, baseclass)
DoListModels(include, exclude, baseclass) ==
    /\ Listed(include, exclude, baseclass, ListModels(registry, include, exclude, baseclass))
    /\ UNCHANGED <<classes, heap, registry, fit>>

NextList ==
    \/ \E model \in DOMAIN RegClasses, name \in {NoName, KKEY} :
          DoRegister(model, name, FALSE, TRUE)
    \/ \E include \in NamesInputs, baseclass \in {"none", "FunctionModel1D"} :
          DoListModels(include, <<>>, baseclass)
    \/ \E exclude \in NamesInputs \ {<<>>}, baseclass \in {"none", "FunctionModel1D"} :
          DoListModels(<<>>, exclude, baseclass)
    \/ DoListModels(<<<<KKEY>>>>, <<<<KKEY>>>>, "none")

SpecList == InitRegistry /\ [][NextList]_vars

\* the registry names that list_models considers
Considered(baseclass) ==
    {k \in DOMAIN registry : baseclass = "none" \/ RegClasses[registry[k]].is1d}

\* C24: list_models raises TypeError when both include and exclude are
\* given, ValueError when a name of include (at any position) or of exclude
\* is not among the registry names left by the baseclass filter, and else
\* returns the included names, or the registry names without the excluded.
C24_ListModels ==
    [][last'.op = "list_models" =>
          LET names == Considered(last'.baseclass)
          IN IF last'.include # <<>> /\ last'.exclude # <<>> THEN last'.exc = "TypeError"
             ELSE IF last'.include # <<>>
             THEN IF \E i \in 1..Len(last'.include[1]) : last'.include[1][i] \notin names
                  THEN last'.exc = "ValueError"
                  ELSE last'.exc = "none" /\ Range(last'.res) = Range(last'.include[1])
             ELSE IF last'.exclude # <<>>
             THEN IF \E i \in 1..Len(last'.exclude[1]) : last'.exclude[1][i] \notin names
                  THEN last'.exc = "ValueError"
                  ELSE last'.exc = "none" /\ Range(last'.res) = names \ Range(last'.exclude[1])
             ELSE last'.exc = "none" /\ Range(last'.res) = names]_vars

\* the number of operators an operation argument supplies for n models: a
\* single operator character is repeated n-1 times
Supplied(operation, n) ==
    IF operation.kind = "char" THEN n - 1
    ELSE IF operation.kind = "seq" THEN Len(operation.ops)
    ELSE Cardinality({i \in 1..Len(operation.expr) : operation.expr[i] = "m"}) - 1

\* C25: a constructed CompositeModel1D has len(ops) = len(models) - 1 for
\* each form of the operation argument (operator character, sequence of
\* operators, expression string with 'm' placeholders), and an operation
\* that does not supply len(models) - 1 operators makes construction fail.
C25_OperatorCount ==
    [][last'.op = "construct" =>
          /\ last'.exc = "none" =>
                Len(heap'[Len(heap')].ops) = Len(heap'[Len(heap')].models) - 1
          /\ Supplied(last'.operation, Len(last'.models)) # Len(last'.models) - 1 =>
                last'.exc # "none"]_vars

(***************************************************************************)
(* SpecGrid: construction of ModelGrid1D.  models is a model type          *)
(* ([kind |-> "type", cls |-> c]) or a sequence of instances given by      *)
(* their classes ([kind |-> "seq", clss |-> <<...>>]); the value of a      *)
(* parameter is a scalar (SCALAR) or a sequence, given by its length;      *)
(* nmodels is NONE or a number.                                            *)
(***************************************************************************)
MaxGrid == 2
SCALAR == 0 - 1
NONE == 0 - 1

\* the sequence-valued entries of a dictionary of parameter values
SeqLens(d) == {d[p] : p \in {q \in DOMAIN d : d[q] # SCALAR}}

\* lines 1495-1505: n inferred from the sequence-valued parameters; n is NONE
\* when nothing gave it
InferN(nmodels, lens) ==
    IF \E l \in lens : nmodels # NONE /\ l # nmodels THEN [exc |-> "ValueError", n |-> NONE]
    ELSE IF Cardinality(lens) > 1 THEN [exc |-> "ValueError", n |-> NONE]
    ELSE IF nmodels # NONE THEN [exc |-> "none", n |-> nmodels]
    ELSE IF lens = {} THEN [exc |-> "none", n |-> NONE]
    ELSE [exc |-> "none", n |-> CHOOSE l \in lens : TRUE]

\* lines 1486-1505: the number of models n and the model classes
GridModels(models, nmodels, extraparams, params) ==
    IF models.kind = "seq"
    THEN IF \E i \in 1..Len(models.clss) : ~RegClasses[models.clss[i]].ismodel
         THEN [exc |-> "TypeError", n |-> NONE, clss |-> <<>>]
         ELSE IF nmodels # NONE /\ nmodels # Len(models.clss)
         THEN [exc |-> "ValueError", n |-> NONE, clss |-> <<>>]
         ELSE [exc |-> "none", n |-> Len(models.clss), clss |-> models.clss]
    ELSE IF ~RegClasses[models.cls].ismodel THEN [exc |-> "TypeError", n |-> NONE, clss |-> <<>>]
    ELSE LET r == InferN(nmodels, SeqLens(params) \cup SeqLens(extraparams))
         IN IF r.exc # "none" THEN [exc |-> r.exc, n |-> NONE, clss |-> <<>>]
            ELSE IF r.n = NONE THEN [exc |-> "ValueError", n |-> NONE, clss |-> <<>>]
            ELSE [exc |-> "none", n |-> r.n, clss |-> [i \in 1..r.n |-> models.cls]]

\* lines 1512-1513: a scalar becomes an array of length n
Arrays(d, n) == [p \in DOMAIN d |-> IF d[p] = SCALAR THEN n ELSE d[p]]

\* lines 1512-1522: pv[i] for each model raises IndexError on a short array;
\* the grid holds the models, with the parameters assigned, and extraparams
GridObject(g, extraparams, params) ==
    IF g.exc # "none" THEN [exc |-> g.exc, h |-> <<>>]
    ELSE IF \E p \in DOMAIN params : Arrays(params, g.n)[p] < g.n
         THEN [exc |-> "IndexError", h |-> <<>>]
    ELSE [exc |-> "none",
          h |-> <<[kind |-> "grid",
                   models |-> [i \in 1..g.n |-> [cls |-> g.clss[i], attrs |-> DOMAIN params]],
                   extraparams |-> Arrays(extraparams, g.n),
                   params |-> Arrays(params, g.n)]>>]

\* ModelGrid1D.__init__ (lines 1477-1522)
ModelGrid1DInit(models, nmodels, extraparams, params) ==
    GridObject(GridModels(models, nmodels, extraparams, params), extraparams, params)

\* the values of one parameter: not given, a scalar, a sequence
ValueInputs(name) == {EmptyDict} \cup {name :> v : v \in {SCALAR} \cup 1..MaxGrid}

GridModelsInputs ==
    {[kind |-> "type", cls |-> c] : c \in {"GModel", "Other"}}
    \cup {[kind |-> "seq", clss |-> clss] : clss \in SeqsUpTo(DOMAIN RegClasses, MaxGrid)}

GridBuilt(models, nmodels, extraparams, params, r) ==
    /\ heap' = r.h
    /\ last' = [op |-> "ModelGrid1D", exc |-> r.exc, models |-> models, nmodels |-> nmodels,
                extraparams |-> extraparams, params |-> params]

\* ModelGrid1D(models, nmodels, extraparams, **params)
GridOp(models, nmodels, extraparams, params) ==
    /\ GridBuilt(models, nmodels, extraparams, params,
                 ModelGrid1DInit(models, nmodels, extraparams, params))
    /\ UNCHANGED <<classes, registry, fit>>

NextGrid ==
    \E models \in GridModelsInputs : \E nmodels \in {NONE} \cup 1..MaxGrid :
    \E extraparams \in ValueInputs(<<"e">>) : \E params \in ValueInputs(PA) :
       GridOp(models, nmodels, extraparams, params)

SpecGrid == InitRegistry /\ [][NextGrid]_vars

\* the grid just constructed
Grid == heap'[1]

\* C26: a constructed ModelGrid1D holds models that are all instances of one
\* model type, and every parameter array and extra-parameter array has the
\* length of the model sequence; the construction fails when the models
\* given are of different types or a sequence given for a parameter or an
\* extra parameter has another length than the model sequence.
C26_GridInvariant ==
    [][last'.op = "ModelGrid1D" =>
          /\ last'.exc = "none" =>
                /\ \A i, j \in 1..Len(Grid.models) : Grid.models[i].cls = Grid.models[j].cls
                /\ \A p \in DOMAIN Grid.params : Grid.params[p] = Len(Grid.models)
                /\ \A p \in DOMAIN Grid.extraparams : Grid.extraparams[p] = Len(Grid.models)
          /\ (/\ last'.models.kind = "seq"
              /\ \/ \E i, j \in 1..Len(last'.models.clss) :
                       last'.models.clss[i] # last'.models.clss[j]
                 \/ \E l \in SeqLens(last'.params) \cup SeqLens(last'.extraparams) :
                       l # Len(last'.models.clss)) =>
                last'.exc # "none"]_vars

(***************************************************************************)
(* SpecMethod: the fit method chosen for a model class.  classes is the    *)
(* sequence of the model classes defined so far; a class names its parent  *)
(* (0 is FunctionModel, whose _customFit raises NotImplementedError) and   *)
(* whether its own body defines _customFit.                                *)
(***************************************************************************)
MaxClasses == 3
BASE == 0

ClassDef(parent, customfit) == [parent |-> parent, customfit |-> customfit]

\* the classes searched for an attribute of an instance of class c, in order
RECURSIVE Mro(_, _)
Mro(cs, c) == IF c = BASE THEN <<>> ELSE <<c>> \o Mro(cs, cs[c].parent)

\* self._customFit (line 405): the first class on the way to FunctionModel
\* whose body defines it, BASE for the method of FunctionModel (line 519)
CustomFitOf(cs, c) ==
    LET mro == Mro(cs, c)
        defining == {i \in 1..Len(mro) : cs[mro[i]].customfit}
    IN IF defining = {} THEN BASE
       ELSE mro[CHOOSE i \in defining : \A j \in defining : i <= j]

\* lines 389-405: the method of fitData and the _customFit it runs
Chosen(cs, c, meth) ==
    [meth |-> meth, runs |-> IF meth = "custom" THEN <<CustomFitOf(cs, c)>> ELSE <<>>]

InitMethod ==
    /\ classes = <<>>
    /\ heap = <<>>
    /\ registry = EmptyDict
    /\ fit = Idle
    /\ last = [op |-> "init"]

\* class C(P): ..., with or without a _customFit of its own
DefineClassOp(parent, customfit) ==
    /\ Len(classes) < MaxClasses
    /\ classes' = Append(classes, ClassDef(parent, customfit))
    /\ last' = [op |-> "class"]
    /\ UNCHANGED <<heap, registry, fit>>

\* C().fitData(x, y, method=method), up to the choice of the method
ChooseMethodOp(c, method) ==
    /\ last' = [op |-> "method", c |-> c, method |-> method,
                chosen |-> Chosen(classes, c, MethodOf(classes[c], method))]
    /\ UNCHANGED <<classes, heap, registry, fit>>

NextMethod ==
    \/ \E parent \in {BASE} \cup 1..Len(classes) : \E customfit \in BOOLEAN :
          DefineClassOp(parent, customfit)
    \/ \E c \in 1..Len(classes) : \E method \in {"None", "custom", "leastsq"} :
          ChooseMethodOp(c, method)

SpecMethod == InitMethod /\ [][NextMethod]_vars

\* C27: with no method given, fitData uses the class's _customFit exactly
\* when the class provides an override of it, defined in its own body or
\* inherited from a parent model class, and least squares otherwise.
C27_DefaultMethod ==
    [][(last'.op = "method" /\ last'.method = "None") =>
          IF CustomFitOf(classes, last'.c) # BASE
          THEN last'.chosen = [meth |-> "custom", runs |-> <<CustomFitOf(classes, last'.c)>>]
          ELSE last'.chosen = [meth |-> "leastsq", runs |-> <<>>]]_vars

(***************************************************************************)
(* SpecJac: integrateCircular and integrateSpherical.  kwargs is the       *)
(* keyword dictionary of the call.  A jacobian is a function: one the      *)
(* caller wrote, [kind |-> "const", k |-> k] for lambda x,*params: k, or   *)
(* a lambda of the method, [kind |-> "lambda", inner |-> b, weight |-> w], *)
(* which reads kwargs['jac'] when it is called if inner.  The weights are  *)
(* in units of pi: 2*x for CIRCULAR and 4*x*x for SPHERICAL.               *)
(***************************************************************************)
CIRCULAR == "circular"
SPHERICAL == "spherical"

Weight(w, x) == IF w = CIRCULAR THEN 2 * x ELSE 4 * x * x

JacResult(e, v) == [exc |-> e, value |-> v]

\* the lambda of lines 1092 and 1103: kwargs['jac'](x,*params) times the weight
JacTimes(w, x, r) == IF r.exc # "none" THEN r ELSE JacResult("none", r.value * Weight(w, x))

\* jac(x, *pars) with the dictionary kwargs of the enclosing call; depth is
\* the number of calls in progress, RuntimeError past the recursion limit
RECURSIVE CallJac(_, _, _, _)
CallJac(kwargs, jac, x, depth) ==
    IF depth > MaxDepth THEN JacResult("RuntimeError", 0)
    ELSE IF jac.kind = "const" THEN JacResult("none", jac.k)
    ELSE IF jac.inner THEN JacTimes(jac.weight, x, CallJac(kwargs, kwargs["jac"], x, depth + 1))
    ELSE JacResult("none", Weight(jac.weight, x))

\* lines 1091-1094 and 1102-1105: kwargs['jac'] is set to the lambda
WithJac(kwargs, w) ==
    SetKey(kwargs, "jac", [kind |-> "lambda", inner |-> "jac" \in DOMAIN kwargs, weight |-> w])

\* f of lines 1040-1041 at x: jac(x,*pars)*self.f(x,*pars), j being the
\* outcome of the jacobian and e of self.f
JacF(j, e) ==
    IF j.exc # "none" THEN Raised(j.exc, e.h)
    ELSE IF e.exc # "none" THEN e
    ELSE [e EXCEPT !.value = j.value * e.value]

JacFAt(ct, h, o, kwargs, x, ps) ==
    JacF(CallJac(kwargs, kwargs["jac"], x, 1), FWith(ct, h, o, x, ps))

IntegrateJacUpper(ct, o, kwargs, lower, upper, ps, a) ==
    IF a.exc # "none" THEN a
    ELSE IntegrateEnds(lower, upper, a, JacFAt(ct, a.h, o, kwargs, upper, ps))

IntegrateJacWith(ct, o, kwargs, lower, upper, pv) ==
    IF pv.exc # "none" THEN Raised(pv.exc, pv.h)
    ELSE IntegrateJacUpper(ct, o, kwargs, lower, upper, pv.vals,
                           JacFAt(ct, pv.h, o, kwargs, lower, pv.vals))

\* FunctionModel1D.integrate(lower, upper, jac=kwargs['jac'])
IntegrateJac(ct, h, o, kwargs, lower, upper) ==
    IntegrateJacWith(ct, o, kwargs, lower, upper, GetParvals(ct, h, o))

\* integrateCircular (w = CIRCULAR) and integrateSpherical (w = SPHERICAL)
IntegrateSymmetric(ct, h, o, w, lower, upper, kwargs) ==
    IntegrateJac(ct, h, o, WithJac(kwargs, w), lower, upper)

\* the keywords of the call: no jac, or a jac the caller wrote
JacInputs == {EmptyDict} \cup {"jac" :> [kind |-> "const", k |-> k] : k \in Vals}

IntegratedSymmetric(w, lower, upper, kwargs, r) ==
    /\ heap' = r.h
    /\ last' = [op |-> w, exc |-> r.exc, lower |-> lower, upper |-> upper,
                kwargs |-> kwargs, value |-> r.value]

\* model.integrateCircular(lower, upper, **kwargs)
IntegrateCircularOp(lower, upper, kwargs) ==
    /\ fit = Idle
    /\ IntegratedSymmetric(CIRCULAR, lower, upper, kwargs,
          IntegrateSymmetric(classes, heap, Subject, CIRCULAR, lower, upper, kwargs))
    /\ UNCHANGED <<classes, registry, fit>>

\* model.integrateSpherical(lower, upper, **kwargs)
IntegrateSphericalOp(lower, upper, kwargs) ==
    /\ fit = Idle
    /\ IntegratedSymmetric(SPHERICAL, lower, upper, kwargs,
          IntegrateSymmetric(classes, heap, Subject, SPHERICAL, lower, upper, kwargs))
    /\ UNCHANGED <<classes, registry, fit>>

NextJac ==
    \/ \E name \in Range(Params(heap, Subject)) : \E val \in Vals : SetParam(Subject, name, val)
    \/ \E upper \in Vals : \E kwargs \in JacInputs : IntegrateCircularOp(0, upper, kwargs)
    \/ \E upper \in Vals : \E kwargs \in JacInputs : IntegrateSphericalOp(0, upper, kwargs)

SpecJac == InitCall /\ [][NextJac]_vars

\* the estimate of the integral of k * weight(x) * f(x) between the bounds
SymmetricIntegral(h, w, k, lower, upper) ==
    ((upper - lower) * (k * Weight(w, lower) * FValue(classes, h, Subject, lower)
                        + k * Weight(w, upper) * FValue(classes, h, Subject, upper))) \div 2

\* C28: integrateCircular and integrateSpherical called with a jacobian of
\* the caller terminate without an exception, and their result is the
\* integral of the model weighted by jac(x)*2*pi*x, respectively
\* jac(x)*4*pi*x*x.
C28_SymmetricJac ==
    [][(last'.op \in {CIRCULAR, SPHERICAL} /\ "jac" \in DOMAIN last'.kwargs) =>
          /\ last'.exc = "none"
          /\ last'.value = SymmetricIntegral(heap', last'.op, last'.kwargs["jac"].k,
                                             last'.lower, last'.upper)]_vars

\* C30: in every constructed composite, one whose models list names the
\* same instance at two positions included, assigning a value to one
\* parameter of the composite leaves the value of each of its other
\* parameters as it was.
C30_Independence ==
    [][(last'.op = "setattr" /\ last'.o \in Composites) =>
          \A n \in Range(heap[last'.o].pars) \ {last'.name} :
             SameRead(GetAttr(classes, heap, last'.o, n), GetAttr(classes, heap', last'.o, n))]_vars

====
